---- MODULE Spec2Model ----
(***************************************************************************)
(* Feedback Analyzer worker: the validator that coerces the generative     *)
(* model's output into a Feedback record, the ingestion path that writes   *)
(* the record to the object store (R2) and the relational store (D1), and  *)
(* the deferred-response protocol of the chat-platform commands.           *)
(***************************************************************************)
EXTENDS Integers, Sequences, FiniteSets, TLC

VARIABLES val, r2, db, req, task

vars == <<val, r2, db, req, task>>

(***************************************************************************)
(* JavaScript values as the worker sees them after JSON.parse.             *)
(***************************************************************************)
JUndef == [t |-> "undefined"]

JNull == [t |-> "null"]

JBool(b) == [t |-> "boolean", b |-> b]

JNum(n) == [t |-> "number", n |-> n]

JStr(s) == [t |-> "string", s |-> s]

JArr(a) == [t |-> "array", a |-> a]

JObj(f) == [t |-> "object", f |-> f]

\* The result of an evaluation that may throw.
Ok(v) == [ok |-> TRUE, v |-> v]

Throw(e) == [ok |-> FALSE, err |-> e]

\* data.k : a property read. Reading a property of null throws a TypeError;
\* primitives and arrays have none of the keys the worker reads.
CanRead(data) == data.t \notin {"null", "undefined"}

Get(data, k) ==
    IF data.t = "object" /\ k \in DOMAIN data.f THEN data.f[k] ELSE JUndef

\* k in data, for a parsed value.
HasKey(data, k) == data.t = "object" /\ k \in DOMAIN data.f

\* JavaScript truthiness, as used by `||` and `!`.
Truthy(v) ==
    CASE v.t = "undefined" -> FALSE
      [] v.t = "null" -> FALSE
      [] v.t = "boolean" -> v.b
      [] v.t = "number" -> v.n # 0
      [] v.t = "string" -> (IF "s" \in DOMAIN v THEN v.s # "" ELSE v.tok # <<>>)
      [] OTHER -> TRUE

\* a || b
OrElse(a, b) == IF Truthy(a) THEN a ELSE b

Digit(d) == SubSeq("0123456789", d + 1, d + 1)

RECURSIVE NatStr(_)
NatStr(n) == IF n < 10 THEN Digit(n) ELSE NatStr(n \div 10) \o Digit(n % 10)

NumStr(n) == IF n < 0 THEN "-" \o NatStr(0 - n) ELSE NatStr(n)

\* String(v) of an array element: null and undefined join as the empty text.
ElemStr(v) ==
    CASE v.t = "string" -> v.s
      [] v.t = "number" -> NumStr(v.n)
      [] v.t = "boolean" -> (IF v.b THEN "true" ELSE "false")
      [] v.t = "object" -> "[object Object]"
      [] OTHER -> ""

RECURSIVE JoinComma(_)
JoinComma(a) ==
    IF Len(a) = 0 THEN ""
    ELSE IF Len(a) = 1 THEN ElemStr(a[1])
    ELSE ElemStr(a[1]) \o "," \o JoinComma(Tail(a))

\* String(v). A parsed object that carries its own (non-callable) toString
\* cannot be converted to a primitive: String throws a TypeError.
CanString(v) == ~(v.t = "object" /\ "toString" \in DOMAIN v.f)

String(v) ==
    CASE v.t = "undefined" -> "undefined"
      [] v.t = "null" -> "null"
      [] v.t = "boolean" -> (IF v.b THEN "true" ELSE "false")
      [] v.t = "number" -> NumStr(v.n)
      [] v.t = "string" -> v.s
      [] v.t = "array" -> JoinComma(v.a)
      [] OTHER -> "[object Object]"

(***************************************************************************)
(* The canonical schema.                                                   *)
(***************************************************************************)
validSources == {"discord", "github", "support", "twitter", "email"}

validProductAreas ==
    {"auth", "billing", "workers", "ai", "workers-ai", "d1", "r2", "other"}

validSentiments == {"positive", "neutral", "negative"}

validUrgencies == {"low", "medium", "high", "p1"}

\* The coercion with the membership test left out: only a missing value gets
\* the fallback.
CoerceMissingOnly(v, valid, fallback) ==
    IF v.t = "undefined" THEN JStr(fallback) ELSE v

\* The coercion with the membership test replaced by a type test: every
\* string is kept.
CoerceAnyString(v, valid, fallback) ==
    IF v.t = "string" THEN v ELSE JStr(fallback)

\* validX.includes(v) ? v : fallback
Coerce(v, valid, fallback) ==
    IF v.t = "string" /\ v.s \in valid THEN v ELSE JStr(fallback)

\* typeof v === 'string' ? v : undefined
StringOrUndef(v) == IF v.t = "string" THEN v ELSE JUndef

\* typeof v === 'number' ? v : undefined
NumberOrUndef(v) == IF v.t = "number" THEN v ELSE JUndef

\* Array.isArray(v) ? v.filter(typeof t === 'string') : []
TagsOf(v) ==
    IF v.t = "array"
    THEN JArr(SelectSeq(v.a, LAMBDA e : e.t = "string"))
    ELSE JArr(<<>>)

ConfidenceOf(v) ==
    IF v.t \in {"object", "array"}
    THEN JObj([product_area |-> NumberOrUndef(Get(v, "product_area")),
               sentiment |-> NumberOrUndef(Get(v, "sentiment")),
               urgency |-> NumberOrUndef(Get(v, "urgency"))])
    ELSE JUndef

IdSource(data, uuid) == OrElse(Get(data, "id"), JStr(uuid))

CreatedAtSource(data, now) == OrElse(Get(data, "created_at"), JStr(now))

BodySource(data) ==
    OrElse(Get(data, "body_text"),
      OrElse(Get(data, "content"),
        OrElse(Get(data, "body"), OrElse(Get(data, "text"), JStr("")))))

\* validateFeedback(data), with the values crypto.randomUUID() and
\* new Date().toISOString() would give passed in as uuid and now.
validateFeedback(data, uuid, now) ==
    IF ~CanRead(data) THEN Throw("TypeError")
    ELSE IF ~CanString(IdSource(data, uuid)) THEN Throw("TypeError")
    ELSE IF ~CanString(CreatedAtSource(data, now)) THEN Throw("TypeError")
    ELSE IF ~CanString(BodySource(data)) THEN Throw("TypeError")
    ELSE Ok([id |-> JStr(String(IdSource(data, uuid))),
             created_at |-> JStr(String(CreatedAtSource(data, now))),
             source |-> Coerce(Get(data, "source"), validSources, "email"),
             source_url |-> StringOrUndef(Get(data, "source_url")),
             product_area |->
                 Coerce(Get(data, "product_area"), validProductAreas, "other"),
             title |-> StringOrUndef(Get(data, "title")),
             author |-> StringOrUndef(Get(data, "author")),
             thread_id |-> StringOrUndef(Get(data, "thread_id")),
             body_text |-> JStr(String(BodySource(data))),
             sentiment |->
                 Coerce(Get(data, "sentiment"), validSentiments, "neutral"),
             urgency |-> Coerce(Get(data, "urgency"), validUrgencies, "medium"),
             tags |-> TagsOf(Get(data, "tags")),
             confidence |-> ConfidenceOf(Get(data, "confidence"))])

(***************************************************************************)
(* The generative model's text.  A text is a sequence of tokens: the       *)
(* triple-backtick marker, a word, white space, and a well-formed JSON     *)
(* text, which is carried as the value it parses to.                       *)
(***************************************************************************)
Fence == [k |-> "fence"]

Word(w) == [k |-> "word", w |-> w]

NL == [k |-> "space"]

Json(v) == [k |-> "json", j |-> v]

\* A string whose content is a token sequence.
JText(tok) == [t |-> "string", tok |-> tok]

RECURSIVE TrimStart(_)
TrimStart(tok) ==
    IF Len(tok) > 0 /\ tok[1].k = "space" THEN TrimStart(Tail(tok)) ELSE tok

RECURSIVE TrimEnd(_)
TrimEnd(tok) ==
    IF Len(tok) > 0 /\ tok[Len(tok)].k = "space"
    THEN TrimEnd(SubSeq(tok, 1, Len(tok) - 1))
    ELSE tok

\* s.trim()
Trim(tok) == TrimEnd(TrimStart(tok))

StartsWithFence(tok) == Len(tok) > 0 /\ tok[1].k = "fence"

\* s.startsWith('```json')
StartsWithFenceJson(tok) ==
    /\ StartsWithFence(tok)
    /\ Len(tok) > 1
    /\ tok[2].k = "word"
    /\ Len(tok[2].w) >= 4
    /\ SubSeq(tok[2].w, 1, 4) = "json"

\* s.slice(7) of a text that starts with '```json': the marker and the four
\* letters go, what is left of the word stays.
SliceFenceJson(tok) ==
    IF Len(tok[2].w) = 4 THEN SubSeq(tok, 3, Len(tok))
    ELSE <<Word(SubSeq(tok[2].w, 5, Len(tok[2].w)))>> \o SubSeq(tok, 3, Len(tok))

EndsWithFence(tok) == Len(tok) > 0 /\ tok[Len(tok)].k = "fence"

\* The fence stripping of normalizeFeedback.
StripFences(responseText) ==
    LET t0 == Trim(responseText)
        t1 == IF StartsWithFenceJson(t0) THEN SliceFenceJson(t0)
              ELSE IF StartsWithFence(t0) THEN Tail(t0)
              ELSE t0
        t2 == IF EndsWithFence(t1) THEN SubSeq(t1, 1, Len(t1) - 1) ELSE t1
    IN  Trim(t2)

\* JSON.parse: white space around one JSON text is allowed, nothing else.
JSONparse(tok) ==
    LET t == Trim(tok)
    IN  IF Len(t) = 1 /\ t[1].k = "json" THEN Ok(t[1].j)
        ELSE Throw("SyntaxError")

\* normalizeFeedback with a silent fallback to an all-default record when the
\* text does not parse.
normalizeFeedbackDefaulting(response, uuid, now) ==
    IF ~HasKey(response, "response") THEN Throw("Error")
    ELSE IF response.f.response.t # "string" THEN Throw("TypeError")
    ELSE LET parsed == JSONparse(StripFences(response.f.response.tok))
         IN  IF ~parsed.ok THEN validateFeedback(JObj(<<>>), uuid, now)
             ELSE validateFeedback(parsed.v, uuid, now)

\* normalizeFeedback from the value ai.run resolved to (a rejection of the
\* call itself is the caller's case).
normalizeFeedback(response, uuid, now) ==
    IF ~HasKey(response, "response") THEN Throw("Error")
    ELSE IF response.f.response.t # "string" THEN Throw("TypeError")
    ELSE LET parsed == JSONparse(StripFences(response.f.response.tok))
         IN  IF ~parsed.ok THEN parsed
             ELSE validateFeedback(parsed.v, uuid, now)

(***************************************************************************)
(* Storage gateway: the object store and the relational table.             *)
(***************************************************************************)
\* JSON.stringify: properties holding undefined are left out.  The text is
\* one JSON token carrying the value a later JSON.parse gives back.
Defined(f) == {k \in DOMAIN f : f[k].t # "undefined"}

RECURSIVE JSONvalue(_)
JSONvalue(v) ==
    IF v.t = "object" THEN JObj([k \in Defined(v.f) |-> JSONvalue(v.f[k])])
    ELSE v

JSONstringify(v) == JText(<<Json(JSONvalue(v))>>)

\* s.split('T')[0]
RECURSIVE BeforeT(_, _)
BeforeT(s, i) ==
    IF i > Len(s) THEN s
    ELSE IF SubSeq(s, i, i) = "T" THEN SubSeq(s, 1, i - 1)
    ELSE BeforeT(s, i + 1)

getFeedbackR2Key(feedback) ==
    "feedback/dt=" \o BeforeT(feedback.created_at.s, 1) \o "/source="
        \o feedback.source.s \o "/" \o feedback.id.s \o ".json"

\* The object bucket.put stores under the key.
R2Object(feedback) ==
    [body |-> JSONstringify(JObj(feedback)),
     httpMetadata |-> [contentType |-> "application/json"],
     customMetadata |-> [source |-> feedback.source,
                         product_area |-> feedback.product_area,
                         sentiment |-> feedback.sentiment,
                         urgency |-> feedback.urgency,
                         created_at |-> feedback.created_at]]

\* A store as a function from the keys present to what they hold.
EmptyStore == [k \in {} |-> JNull]

StorePut(store, k, v) ==
    [q \in DOMAIN store \cup {k} |-> IF q = k THEN v ELSE store[q]]

\* storeFeedbackInR2 when bucket.put resolves: the bucket afterwards.
storeFeedbackInR2(bucket, feedback) ==
    StorePut(bucket, getFeedbackR2Key(feedback), R2Object(feedback))

\* v ?? null
OrNull(v) == IF v.t \in {"undefined", "null"} THEN JNull ELSE v

feedbackToRow(feedback, r2Key) ==
    [id |-> feedback.id,
     created_at |-> feedback.created_at,
     source |-> feedback.source,
     source_url |-> OrNull(feedback.source_url),
     product_area |-> feedback.product_area,
     title |-> OrNull(feedback.title),
     author |-> OrNull(feedback.author),
     thread_id |-> OrNull(feedback.thread_id),
     body_text |-> feedback.body_text,
     sentiment |-> feedback.sentiment,
     urgency |-> feedback.urgency,
     tags_json |-> IF Len(feedback.tags.a) > 0
                   THEN JSONstringify(feedback.tags) ELSE JNull,
     confidence_json |-> IF Truthy(feedback.confidence)
                         THEN JSONstringify(feedback.confidence) ELSE JNull,
     r2_key |-> JStr(r2Key)]

\* An upsert that updates in place and keeps the earlier value of every
\* column the new record leaves null.
upsertFeedbackMerge(table, feedback, r2Key) ==
    LET new == feedbackToRow(feedback, r2Key)
    IN  IF feedback.id.s \in DOMAIN table
        THEN StorePut(table, feedback.id.s,
                 [c \in DOMAIN new |->
                     IF new[c] = JNull THEN table[feedback.id.s][c] ELSE new[c]])
        ELSE StorePut(table, feedback.id.s, new)

\* upsertFeedback when the statement runs: INSERT OR REPLACE on the primary
\* key id; the table afterwards.
upsertFeedback(table, feedback, r2Key) ==
    StorePut(table, feedback.id.s, feedbackToRow(feedback, r2Key))

(***************************************************************************)
(* Requests to the worker.  Each request is one call of fetch; req[i]      *)
(* holds the request, where its handler stands, the store operations the   *)
(* handler has issued and how the promise fetch returned has settled.      *)
(***************************************************************************)
NumReqs == 2

Reqs == 1 .. NumReqs

None == [kind |-> "none"]

\* Response.json(body, {status}): the body is serialised.
Response(status, body) ==
    [kind |-> "response", status |-> status, body |-> JSONvalue(body)]

\* The promise returned by fetch rejected with err.
Rejected(err) == [kind |-> "rejected", err |-> err]

NewReq(r) ==
    [r |-> r, pc |-> "recv", resp |-> None, parse |-> "none",
     feedback |-> JUndef, r2Key |-> JUndef, ops |-> <<>>]

\* A router that looks at the path only.
RouteAnyMethod(r) ==
    IF r.path = "/interactions" THEN "handleDiscordInteraction"
    ELSE IF r.path = "/ingest" THEN "handleIngest"
    ELSE IF r.path = "/ask" THEN "handleAsk"
    ELSE IF r.path = "/digest" THEN "handleDigest"
    ELSE IF r.path = "/" THEN "health"
    ELSE "notFound"

\* The router of fetch: the handler a request is dispatched to.
Route(r) ==
    IF r.method = "POST" /\ r.path = "/interactions" THEN "handleDiscordInteraction"
    ELSE IF r.method = "POST" /\ r.path = "/ingest" THEN "handleIngest"
    ELSE IF r.method = "POST" /\ r.path = "/ask" THEN "handleAsk"
    ELSE IF r.method = "POST" /\ r.path = "/digest" THEN "handleDigest"
    ELSE IF r.method = "GET" /\ r.path = "/" THEN "health"
    ELSE "notFound"

\* How fetch settles when the promise of the handler it returned rejects:
\* the handler's promise is returned from inside the try block without being
\* awaited, so the catch clause never sees the rejection.
FetchSettle(err) == Rejected(err)

Fail(i, err) ==
    req' = [req EXCEPT ![i].pc = "done", ![i].resp = FetchSettle(err)]

\* crypto.randomUUID() and new Date().toISOString() in request i.
Uuid(i) == "uuid-" \o NumStr(i)

Clock == {"2026-01-10T09:30:00.000Z"}

(***************************************************************************)
(* POST /ingest                                                            *)
(***************************************************************************)
\* The values ai.run can resolve to, or its rejection.
Fb1 ==
    [id |-> JStr("fb-1"), created_at |-> JStr("2026-01-09T08:00:00.000Z"),
     source |-> JStr("discord"), product_area |-> JStr("d1"),
     body_text |-> JStr("D1 queries are slow"), sentiment |-> JStr("negative"),
     urgency |-> JStr("high"), tags |-> JArr(<<JStr("performance")>>),
     confidence |-> JObj([sentiment |-> JNum(1)])]

IngestCandidates ==
    {JNull,
     JObj(Fb1),
     JObj([Fb1 EXCEPT !.body_text = JStr("D1 is fast now"),
                      !.sentiment = JStr("positive"), !.urgency = JStr("low"),
                      !.tags = JNull, !.confidence = JNull]),
     JObj([Fb1 EXCEPT !.id = JStr("fb-2"), !.source = JStr("Slack"),
                      !.urgency = JStr("urgent"), !.tags = JStr("bug")]),
     JObj([content |-> JStr("Billing page is down"), urgency |-> JStr("p1"),
           source |-> JStr("support")])}

Wrappings(v) ==
    {<<Json(v)>>,
     <<NL, Fence, Word("json"), NL, Json(v), NL, Fence, NL>>,
     <<Fence, NL, Json(v), NL, Fence>>,
     <<Fence, Word("js"), NL, Json(v), NL, Fence>>,
     <<Word("Here"), NL, Json(v)>>,
     <<>>}

\* Records that meet Fb1 or each other in id or in key: Fb1's id under another
\* day and source, and two records with different ids whose day, source and
\* id spell the same key.
KeyCandidates ==
    {JObj([Fb1 EXCEPT !.created_at = JStr("2026-01-10T07:00:00.000Z"),
                      !.source = JStr("github")]),
     JObj([Fb1 EXCEPT !.id = JStr("y"), !.source = JStr("email"),
                      !.created_at = JStr("2026-01-09/source=github/x")]),
     JObj([Fb1 EXCEPT !.id = JStr("x/source=email/y"), !.source = JStr("github")])}

ModelTexts == UNION {Wrappings(v) : v \in IngestCandidates}

AiOutcomes ==
    {Throw("AiError"), Ok(JNull), Ok(JObj([usage |-> JNum(3)])),
     Ok(JObj([response |-> JNull]))}
        \cup {Ok(JObj([response |-> JText(t)])) : t \in ModelTexts}

RawInputs ==
    {JObj([source |-> JStr("discord"), content |-> JStr("D1 queries are slow")]),
     JObj([id |-> JStr("fb-1"), source |-> JStr("discord"),
           content |-> JStr("D1 queries are slow")])}

\* A second feed of raw inputs, and what the model answers to them.
KeyRawInputs ==
    {JObj([source |-> JStr("github"), content |-> JStr("D1 queries are slow"),
           url |-> JStr("https://github.com/x/y/issues/1")])}

KeyOutcomes ==
    {Throw("AiError"), Ok(JObj([response |-> JText(<<Word("Here"), NL, Json(JObj(Fb1))>>)]))}
        \cup {Ok(JObj([response |-> JText(<<Json(v)>>)])) :
                 v \in KeyCandidates \cup {JObj(Fb1)}}

\* The outcomes of ai.run considered for a raw input.
AiOutcomesFor(raw) == IF raw \in KeyRawInputs THEN KeyOutcomes ELSE AiOutcomes

KeyRequests ==
    {[method |-> "POST", path |-> "/ingest", body |-> b] :
        b \in {Throw("SyntaxError")} \cup {Ok(raw) : raw \in KeyRawInputs}}

IngestRequests ==
    {[method |-> "POST", path |-> "/ingest", body |-> b] :
        b \in {Throw("SyntaxError")} \cup {Ok(raw) : raw \in RawInputs}}

\* handleIngest, to its first suspension: await request.json().
HandleIngestBody(i) ==
    /\ req[i].pc = "recv"
    /\ Route(req[i].r) = "handleIngest"
    /\ IF req[i].r.body.ok
       THEN req' = [req EXCEPT ![i].pc = "ai"]
       ELSE Fail(i, req[i].r.body.err)
    /\ UNCHANGED <<val, r2, db, task>>

\* What became of the model's text: "unparseable" when JSON.parse threw on
\* the stripped text, "parsed" when it returned, "none" when there was no text.
ParseOutcome(out) ==
    IF out.ok /\ HasKey(out.v, "response") /\ out.v.f.response.t = "string"
    THEN IF JSONparse(StripFences(out.v.f.response.tok)).ok
         THEN "parsed" ELSE "unparseable"
    ELSE "none"

\* ... await normalizeFeedback(env.AI, env.MODEL_NORMALIZE, rawInput)
HandleIngestNormalize(i) ==
    /\ req[i].pc = "ai"
    /\ \E out \in AiOutcomesFor(req[i].r.body.v), now \in Clock :
         IF ~out.ok THEN Fail(i, out.err)
         ELSE LET n == normalizeFeedback(out.v, Uuid(i), now)
              IN  IF n.ok
                  THEN req' = [req EXCEPT ![i].pc = "r2", ![i].feedback = n.v,
                                 ![i].parse = ParseOutcome(out)]
                  ELSE req' = [req EXCEPT ![i].pc = "done",
                                 ![i].resp = FetchSettle(n.err),
                                 ![i].parse = ParseOutcome(out)]
    /\ UNCHANGED <<val, r2, db, task>>

\* The object-store step with a failed write swallowed: the handler goes on
\* to the relational upsert.
HandleIngestStoreSwallow(i) ==
    /\ req[i].pc = "r2"
    /\ LET key == getFeedbackR2Key(req[i].feedback)
       IN  \/ /\ r2' = storeFeedbackInR2(r2, req[i].feedback)
              /\ req' = [req EXCEPT ![i].pc = "d1", ![i].r2Key = JStr(key),
                           ![i].ops = Append(@, [op |-> "put", ok |-> TRUE])]
           \/ /\ r2' = r2
              /\ req' = [req EXCEPT ![i].pc = "d1", ![i].r2Key = JStr(key),
                           ![i].ops = Append(@, [op |-> "put", ok |-> FALSE])]
    /\ UNCHANGED <<val, db, task>>

\* ... const r2Key = await storeFeedbackInR2(env.BUCKET, feedback)
HandleIngestStore(i) ==
    /\ req[i].pc = "r2"
    /\ LET key == getFeedbackR2Key(req[i].feedback)
       IN  \/ /\ r2' = storeFeedbackInR2(r2, req[i].feedback)
              /\ req' = [req EXCEPT ![i].pc = "d1", ![i].r2Key = JStr(key),
                           ![i].ops = Append(@, [op |-> "put", ok |-> TRUE])]
           \/ /\ r2' = r2
              /\ req' = [req EXCEPT ![i].pc = "done",
                           ![i].resp = FetchSettle("R2Error"),
                           ![i].ops = Append(@, [op |-> "put", ok |-> FALSE])]
    /\ UNCHANGED <<val, db, task>>

IngestResponse(feedback, r2Key) ==
    Response(200,
        JObj([success |-> JBool(TRUE), id |-> feedback.id,
              created_at |-> feedback.created_at, r2_key |-> r2Key,
              normalized |-> JObj([source |-> feedback.source,
                                   product_area |-> feedback.product_area,
                                   sentiment |-> feedback.sentiment,
                                   urgency |-> feedback.urgency,
                                   title |-> feedback.title,
                                   tags |-> feedback.tags])]))

StoreDelete(store, k) == [q \in DOMAIN store \ {k} |-> store[q]]

\* The relational step with a compensating delete of the object when the
\* upsert fails.
HandleIngestUpsertRollback(i) ==
    /\ req[i].pc = "d1"
    /\ \/ /\ db' = upsertFeedback(db, req[i].feedback, req[i].r2Key.s)
          /\ r2' = r2
          /\ req' = [req EXCEPT ![i].pc = "done",
                       ![i].resp = IngestResponse(req[i].feedback, req[i].r2Key),
                       ![i].ops = Append(@, [op |-> "upsert", ok |-> TRUE])]
       \/ /\ db' = db
          /\ r2' = StoreDelete(r2, req[i].r2Key.s)
          /\ req' = [req EXCEPT ![i].pc = "done",
                       ![i].resp = FetchSettle("D1Error"),
                       ![i].ops = Append(@, [op |-> "upsert", ok |-> FALSE])]
    /\ UNCHANGED <<val, task>>

\* ... await upsertFeedback(env.DB, feedback, r2Key); return Response.json(..)
HandleIngestUpsert(i) ==
    /\ req[i].pc = "d1"
    /\ \/ /\ db' = upsertFeedback(db, req[i].feedback, req[i].r2Key.s)
          /\ req' = [req EXCEPT ![i].pc = "done",
                       ![i].resp = IngestResponse(req[i].feedback, req[i].r2Key),
                       ![i].ops = Append(@, [op |-> "upsert", ok |-> TRUE])]
       \/ /\ db' = db
          /\ req' = [req EXCEPT ![i].pc = "done",
                       ![i].resp = FetchSettle("D1Error"),
                       ![i].ops = Append(@, [op |-> "upsert", ok |-> FALSE])]
    /\ UNCHANGED <<val, r2, task>>

NoTask == [pc |-> "none"]

InitIngest ==
    /\ val = None
    /\ r2 = EmptyStore
    /\ db = EmptyStore
    /\ req \in [Reqs -> {NewReq(r) : r \in IngestRequests}]
    /\ task = [i \in Reqs |-> NoTask]

NextIngest ==
    \E i \in Reqs :
        \/ HandleIngestBody(i)
        \/ HandleIngestNormalize(i)
        \/ HandleIngestStore(i)
        \/ HandleIngestUpsert(i)

SpecIngest == InitIngest /\ [][NextIngest]_vars

\* Ingestions of the second feed.
InitReingest ==
    /\ val = None
    /\ r2 = EmptyStore
    /\ db = EmptyStore
    /\ req \in [Reqs -> {NewReq(r) : r \in KeyRequests}]
    /\ task = [i \in Reqs |-> NoTask]

SpecReingest == InitReingest /\ [][NextIngest]_vars

(***************************************************************************)
(* Properties of ingestion.                                                *)
(***************************************************************************)
IsSuccess(resp) == resp.kind = "response" /\ resp.status \in 200 .. 299

PutOk == [op |-> "put", ok |-> TRUE]

PutFailed == [op |-> "put", ok |-> FALSE]

UpsertOk == [op |-> "upsert", ok |-> TRUE]

UpsertFailed == [op |-> "upsert", ok |-> FALSE]

\* C8: when the model's text does not parse after fence stripping, no record
\* is produced, the ingestion issues no write to either store, and the
\* request does not end in a success response.
C8_UnparseableWritesNothing ==
    \A i \in Reqs :
        req[i].parse = "unparseable" =>
            /\ req[i].feedback = JUndef
            /\ req[i].ops = <<>>
            /\ req[i].pc = "done"
            /\ ~IsSuccess(req[i].resp)

\* C8 witness: one ingestion ended on an unparseable text while another one
\* has written to both stores.
C8_Witness ==
    \E i, j \in Reqs :
        /\ req[i].parse = "unparseable" /\ req[i].pc = "done"
        /\ req[j].ops = <<PutOk, UpsertOk>>
        /\ DOMAIN r2 # {} /\ DOMAIN db # {}

\* C9: within one ingestion an upsert is issued only after the object-store
\* write of that ingestion succeeded; a failed write is followed by nothing.
C9_PutPrecedesUpsert ==
    \A i \in Reqs :
        /\ \A k \in 1 .. Len(req[i].ops) :
              req[i].ops[k].op = "upsert" => (k = 2 /\ req[i].ops[1] = PutOk)
        /\ (Len(req[i].ops) > 0 /\ req[i].ops[1] = PutFailed) =>
              (req[i].ops = <<PutFailed>> /\ req[i].pc = "done")
        /\ req[i].pc = "d1" => req[i].ops = <<PutOk>>

\* C9 witness: one ingestion wrote the object and then the row, another one
\* failed its object-store write.
C9_Witness ==
    \E i, j \in Reqs :
        /\ req[i].ops = <<PutOk, UpsertOk>>
        /\ req[j].ops = <<PutFailed>>

UpsertFailedAfterPut(q) == q.ops = <<PutOk, UpsertFailed>>

\* C10: the step in which the upsert fails after a successful object-store
\* write changes neither store and leaves the object under its key; the
\* ingestion then issues nothing more, and the object is never removed.
C10_NoRollbackNoRetry ==
    [][\A i \in Reqs :
          /\ (UpsertFailedAfterPut(req'[i]) /\ ~UpsertFailedAfterPut(req[i])) =>
                /\ r2' = r2
                /\ db' = db
                /\ req[i].r2Key.s \in DOMAIN r2'
          /\ UpsertFailedAfterPut(req[i]) =>
                /\ req'[i] = req[i]
                /\ req[i].r2Key.s \in DOMAIN r2'
                /\ ~IsSuccess(req[i].resp)]_vars

\* C10 witness: an ingestion whose upsert failed; its object is in the object
\* store and the relational store has no row for its id.
C10_Witness ==
    \E i \in Reqs :
        /\ UpsertFailedAfterPut(req[i])
        /\ req[i].r2Key.s \in DOMAIN r2
        /\ r2[req[i].r2Key.s] = R2Object(req[i].feedback)
        /\ req[i].feedback.id.s \notin DOMAIN db

\* C7: no request ends with the promise of fetch rejected: every failure is
\* answered with a 4xx/5xx response.
C7_NoUnhandledRejection ==
    \A i \in Reqs :
        req[i].pc = "done" =>
            /\ req[i].resp.kind = "response"
            /\ (req[i].ops # <<PutOk, UpsertOk>> => req[i].resp.status >= 400)

(***************************************************************************)
(* The validator on its own: val holds a candidate value, as JSON.parse    *)
(* can return it, and what validateFeedback made of it.                    *)
(***************************************************************************)
MaxTags == 2

TagElems == {JStr("bug"), JNum(1)}

TagArrays == UNION {[1 .. n -> TagElems] : n \in 0 .. MaxTags}

\* An object from a record of field choices; JUndef stands for "no such key".
MkObj(r) == JObj([k \in Defined(r) |-> r[k]])

ObjectCandidates ==
    {MkObj([id |-> id, created_at |-> ca, source |-> so, product_area |-> pa,
            sentiment |-> se, urgency |-> ur, tags |-> tg, confidence |-> co,
            content |-> bo]) :
        id \in {JUndef, JStr("fb-1"), JNum(0), JObj([toString |-> JNum(1)])},
        ca \in {JUndef, JStr("2026-01-09T08:00:00.000Z")},
        so \in {JUndef, JStr("github"), JStr("GitHub"), JNull},
        pa \in {JUndef, JStr("workers-ai"), JStr("database")},
        se \in {JUndef, JStr("positive"), JBool(TRUE)},
        ur \in {JUndef, JStr("p1"), JArr(<<JStr("p1")>>)},
        tg \in {JUndef, JStr("bug")} \cup {JArr(a) : a \in TagArrays},
        co \in {JUndef, JNull,
                JObj([sentiment |-> JNum(1), urgency |-> JStr("high")])},
        bo \in {JUndef, JStr("Workers AI is great")}}

ScalarCandidates ==
    {JNull, JBool(FALSE), JBool(TRUE), JNum(0), JNum(42), JStr(""),
     JStr("positive"), JArr(<<>>), JArr(<<JStr("bug")>>)}

\* Candidates that vary the non-enum fields: the title and the sub-scores of
\* confidence.
LongTitle ==
    "Workers AI is great but the dashboard takes far too long to load when there are many deployments listed"

RangeCandidates ==
    {MkObj([id |-> JStr("fb-1"), title |-> ti, confidence |-> co,
            content |-> JStr("Workers AI is great")]) :
        ti \in {JUndef, JStr("Workers AI"), JStr(LongTitle), JNum(7)},
        co \in {JUndef, JObj([sentiment |-> JNum(1), urgency |-> JNum(0)]),
                JObj([sentiment |-> JNum(2)]), JObj([urgency |-> JNum(0 - 1)]),
                JObj([product_area |-> JStr("0.9"), sentiment |-> JNull])}}

Candidates == ScalarCandidates \cup ObjectCandidates \cup RangeCandidates

InitValidate ==
    /\ val \in {[cand |-> c, out |-> None] : c \in Candidates}
    /\ r2 = EmptyStore
    /\ db = EmptyStore
    /\ req = [i \in Reqs |-> None]
    /\ task = [i \in Reqs |-> NoTask]

Validate ==
    /\ val.out = None
    /\ \E now \in Clock :
         val' = [val EXCEPT !.out = validateFeedback(val.cand, "uuid-0", now)]
    /\ UNCHANGED <<r2, db, req, task>>

NextValidate == Validate

SpecValidate == InitValidate /\ [][NextValidate]_vars

Returned == val.out # None /\ val.out.ok

InSet(v, valid) == v.t = "string" /\ v.s \in valid

\* C1: every record validateFeedback returns has its source, product_area,
\* sentiment and urgency in their closed sets.
C1_EnumsClosed ==
    Returned =>
        /\ InSet(val.out.v.source, validSources)
        /\ InSet(val.out.v.product_area, validProductAreas)
        /\ InSet(val.out.v.sentiment, validSentiments)
        /\ InSet(val.out.v.urgency, validUrgencies)

\* C1 witness: a record was returned for a candidate whose four enum fields
\* were null, of the wrong case, out of set and of the wrong type.
C1_Witness ==
    /\ Returned
    /\ Get(val.cand, "source") = JNull
    /\ Get(val.cand, "product_area") = JStr("database")
    /\ Get(val.cand, "sentiment") = JBool(TRUE)
    /\ Get(val.cand, "urgency") = JArr(<<JStr("p1")>>)
    /\ val.out.v.source = JStr("email")

\* C2: validateFeedback returns a record for every value the model's text
\* can parse to; it never throws.
C2_ValidatorTotal == val.out # None => val.out.ok

(***************************************************************************)
(* Chat-platform interactions (POST /interactions).                        *)
(***************************************************************************)
PING == 1

APPLICATION_COMMAND == 2

PONG == 1

CHANNEL_MESSAGE_WITH_SOURCE == 4

DEFERRED_CHANNEL_MESSAGE_WITH_SOURCE == 5

EPHEMERAL == 64

createPongResponse == JObj([type |-> JNum(PONG)])

createEphemeralResponse(content) ==
    JObj([type |-> JNum(CHANNEL_MESSAGE_WITH_SOURCE),
          data |-> JObj([content |-> JStr(content), flags |-> JNum(EPHEMERAL)])])

createDeferredResponse == JObj([type |-> JNum(DEFERRED_CHANNEL_MESSAGE_WITH_SOURCE)])

\* new Response(text, {status})
TextResponse(status, text) ==
    [kind |-> "response", status |-> status, body |-> JStr(text)]

Nullish(v) == v.t \in {"undefined", "null"}

Upper == "ABCDEFGHIJKLMNOPQRSTUVWXYZ"

Lower == "abcdefghijklmnopqrstuvwxyz"

LowerChar(c) ==
    IF \E k \in 1 .. 26 : SubSeq(Upper, k, k) = c
    THEN LET k == CHOOSE k \in 1 .. 26 : SubSeq(Upper, k, k) = c
         IN  SubSeq(Lower, k, k)
    ELSE c

\* s.toLowerCase()
RECURSIVE ToLowerCase(_)
ToLowerCase(s) ==
    IF Len(s) = 0 THEN ""
    ELSE LowerChar(SubSeq(s, 1, 1)) \o ToLowerCase(SubSeq(s, 2, Len(s)))

\* interaction.data?.name?.toLowerCase()
CommandName(interaction) ==
    IF ~CanRead(interaction) THEN Throw("TypeError")
    ELSE IF Nullish(Get(interaction, "data")) THEN Ok(JUndef)
    ELSE LET name == Get(Get(interaction, "data"), "name")
         IN  IF Nullish(name) THEN Ok(JUndef)
             ELSE IF name.t = "string" THEN Ok(JStr(ToLowerCase(name.s)))
             ELSE Throw("TypeError")

\* options.find((o) => o.name === name): the index of the first match, 0 when
\* there is none, -1 when an element read before the match is null.
RECURSIVE FindOption(_, _, _)
FindOption(a, name, k) ==
    IF k > Len(a) THEN 0
    ELSE IF ~CanRead(a[k]) THEN 0 - 1
    ELSE IF Get(a[k], "name") = JStr(name) THEN k
    ELSE FindOption(a, name, k + 1)

getStringOption(interaction, name) ==
    IF Nullish(Get(interaction, "data")) THEN Ok(JUndef)
    ELSE LET options == Get(Get(interaction, "data"), "options")
         IN  IF Nullish(options) THEN Ok(JUndef)
             ELSE IF options.t # "array" THEN Throw("TypeError")
             ELSE LET k == FindOption(options.a, name, 1)
                  IN  IF k < 0 THEN Throw("TypeError")
                      ELSE IF k = 0 THEN Ok(JUndef)
                      ELSE IF Get(options.a[k], "value").t = "undefined"
                      THEN Ok(JUndef)
                      ELSE IF ~CanString(Get(options.a[k], "value"))
                      THEN Throw("TypeError")
                      ELSE Ok(JStr(String(Get(options.a[k], "value"))))

(***************************************************************************)
(* Semantic search and the renderings sent to the chat platform.           *)
(***************************************************************************)
Min(a, b) == IF a < b THEN a ELSE b

\* s.substring(0, n)
Substring0(s, n) == SubSeq(s, 1, Min(n, Len(s)))

CitationTextLimit == 200

CitationExcerptLimit == 100

MaxCitations == 3

DiscordLimit == 1900

TruncateAt == 1897

ThemesLimit == 800

SampleLimit == 3

UrgentExcerptLimit == 100

\* A fallback result with no text.
FallbackSilent == [answer |-> JStr(""), citations |-> <<>>]

Fallback ==
    [answer |-> JStr("Unable to search feedback at this time."), citations |-> <<>>]

\* result?.response ?? result?.data?.response ?? 'No results found.'
AnswerOf(result) ==
    IF ~Nullish(Get(result, "response")) THEN Get(result, "response")
    ELSE IF ~Nullish(Get(Get(result, "data"), "response"))
    THEN Get(Get(result, "data"), "response")
    ELSE JStr("No results found.")

\* result?.data?.sources ?? []
SourcesOf(result) ==
    IF Nullish(Get(Get(result, "data"), "sources")) THEN JArr(<<>>)
    ELSE Get(Get(result, "data"), "sources")

\* Whether (s) => ({text: s.content?.substring(0, 200) ?? '', ...}) throws.
CitationThrows(src) ==
    \/ ~CanRead(src)
    \/ ~Nullish(Get(src, "content")) /\ Get(src, "content").t # "string"

Citation(src) ==
    [text |-> IF Nullish(Get(src, "content")) THEN ""
              ELSE Substring0(Get(src, "content").s, CitationTextLimit),
     source_url |-> Get(src, "filename")]

\* queryAiSearch from the outcome of the aiSearch call: everything thrown
\* inside the try block gives the fallback result.
queryAiSearch(outcome) ==
    IF ~outcome.ok THEN Fallback
    ELSE IF SourcesOf(outcome.v).t # "array" THEN Fallback
    ELSE IF \E k \in 1 .. Len(SourcesOf(outcome.v).a) :
                CitationThrows(SourcesOf(outcome.v).a[k])
    THEN Fallback
    ELSE [answer |-> AnswerOf(outcome.v),
          citations |-> [k \in 1 .. Len(SourcesOf(outcome.v).a) |->
                            Citation(SourcesOf(outcome.v).a[k])]]

\* The lines the forEach over citations.slice(0, 3) appends, from index k on.
RECURSIVE SourceLines(_, _)
SourceLines(citations, k) ==
    IF k > Min(MaxCitations, Len(citations)) THEN ""
    ELSE (IF citations[k].text # ""
          THEN "\n" \o NumStr(k) \o ". "
                   \o Substring0(citations[k].text, CitationExcerptLimit) \o "..."
          ELSE "") \o SourceLines(citations, k + 1)

\* A cut at the limit itself, without the ellipsis.
TruncateHard(content) == Substring0(content, DiscordLimit)

\* content.length > 1900 ? content.substring(0, 1897) + '...' : content
Truncate(content) ==
    IF Len(content) > DiscordLimit
    THEN Substring0(content, TruncateAt) \o "..."
    ELSE content

\* The content of summarizeForDiscord before the length test.
AskText(searchResult) ==
    String(searchResult.answer)
        \o (IF Len(searchResult.citations) > 0
            THEN "\n\n**Sources:**" \o SourceLines(searchResult.citations, 1)
            ELSE "")

\* summarizeForDiscord: the content handed to the completion edit.  An answer
\* that is not a string has no length and is returned as it is when there
\* are no citations.
summarizeForDiscord(searchResult) ==
    IF Len(searchResult.citations) = 0 /\ searchResult.answer.t # "string"
    THEN searchResult.answer
    ELSE JStr(Truncate(AskText(searchResult)))

(***************************************************************************)
(* Relational reads of the digest.                                         *)
(***************************************************************************)
\* The characters of the texts compared, in code-unit order.
Ascii ==
    " !#$%&'()*+,-./0123456789:;<=>?@ABCDEFGHIJKLMNOPQRSTUVWXYZ[]^_abcdefghijklmnopqrstuvwxyz{|}~"

CharCode(c) == CHOOSE k \in 1 .. Len(Ascii) : SubSeq(Ascii, k, k) = c

\* a < b for TEXT values (binary collation).
RECURSIVE TextLess(_, _)
TextLess(a, b) ==
    IF Len(b) = 0 THEN FALSE
    ELSE IF Len(a) = 0 THEN TRUE
    ELSE IF SubSeq(a, 1, 1) = SubSeq(b, 1, 1)
    THEN TextLess(SubSeq(a, 2, Len(a)), SubSeq(b, 2, Len(b)))
    ELSE CharCode(SubSeq(a, 1, 1)) < CharCode(SubSeq(b, 1, 1))

IsDigit(c) == \E k \in 1 .. 10 : SubSeq("0123456789", k, k) = c

DigitVal(c) == (CHOOSE k \in 1 .. 10 : SubSeq("0123456789", k, k) = c) - 1

RECURSIVE AllDigits(_)
AllDigits(s) ==
    Len(s) = 0 \/ (IsDigit(SubSeq(s, 1, 1)) /\ AllDigits(SubSeq(s, 2, Len(s))))

RECURSIVE IntOf(_)
IntOf(s) ==
    IF Len(s) = 0 THEN 0
    ELSE 10 * IntOf(SubSeq(s, 1, Len(s) - 1)) + DigitVal(SubSeq(s, Len(s), Len(s)))

Pad2(n) == IF n < 10 THEN "0" \o NatStr(n) ELSE NatStr(n)

Pad4(n) ==
    IF n < 10 THEN "000" \o NatStr(n)
    ELSE IF n < 100 THEN "00" \o NatStr(n)
    ELSE IF n < 1000 THEN "0" \o NatStr(n)
    ELSE NatStr(n)

IsLeap(y) == (y % 4 = 0 /\ y % 100 # 0) \/ y % 400 = 0

DaysIn(y, m) ==
    IF m = 2 THEN (IF IsLeap(y) THEN 29 ELSE 28)
    ELSE IF m \in {4, 6, 9, 11} THEN 30
    ELSE 31

\* A text SQLite's date() reads as a calendar day: YYYY-MM-DD.
IsDay(s) ==
    /\ Len(s) = 10
    /\ AllDigits(SubSeq(s, 1, 4)) /\ SubSeq(s, 5, 5) = "-"
    /\ AllDigits(SubSeq(s, 6, 7)) /\ SubSeq(s, 8, 8) = "-"
    /\ AllDigits(SubSeq(s, 9, 10))
    /\ IntOf(SubSeq(s, 6, 7)) \in 1 .. 12
    /\ IntOf(SubSeq(s, 9, 10)) \in 1 .. 31

\* date(s, '+1 day') for a day s; a day number past the month's end rolls
\* over into the next month.
NextDay(s) ==
    LET y == IntOf(SubSeq(s, 1, 4))
        m == IntOf(SubSeq(s, 6, 7))
        d == IntOf(SubSeq(s, 9, 10)) + 1
    IN  IF d <= DaysIn(y, m) THEN Pad4(y) \o "-" \o Pad2(m) \o "-" \o Pad2(d)
        ELSE IF m < 12
        THEN Pad4(y) \o "-" \o Pad2(m + 1) \o "-" \o Pad2(d - DaysIn(y, m))
        ELSE Pad4(y + 1) \o "-01-" \o Pad2(d - DaysIn(y, m))

Rows(table) == {table[k] : k \in DOMAIN table}

\* WHERE created_at >= ? AND created_at < date(?, '+1 day'); date() of a text
\* that is no day is NULL and the comparison then selects nothing.
OnDay(row, date) ==
    /\ IsDay(date)
    /\ ~TextLess(row.created_at.s, date)
    /\ TextLess(row.created_at.s, NextDay(date))

\* All orderings of a finite set, as sequences.
Orderings(S) ==
    {q \in [1 .. Cardinality(S) -> S] : \A a, b \in DOMAIN q : a # b => q[a] # q[b]}

\* getDailyStats: one row per (source, product_area, sentiment) group of the
\* day, in an order the statement does not fix.
getDailyStats(table, date) ==
    LET day == {r \in Rows(table) : OnDay(r, date)}
        groups == {[source |-> r.source.s, product_area |-> r.product_area.s,
                    sentiment |-> r.sentiment.s,
                    count |-> Cardinality({x \in day :
                                 /\ x.source = r.source
                                 /\ x.product_area = r.product_area
                                 /\ x.sentiment = r.sentiment})] : r \in day}
    IN  Orderings(groups)

\* getFeedbackCount: SELECT COUNT(*) FROM feedback WHERE created_at >= ?
getFeedbackCount(table, sinceDate) ==
    Cardinality({r \in Rows(table) : ~TextLess(r.created_at.s, sinceDate)})

\* getHighUrgencySample: up to limit rows of urgency high or p1, in random
\* order.
getHighUrgencySample(table, limit) ==
    LET high == {[body_text |-> r.body_text, source_url |-> r.source_url] :
                    r \in {x \in Rows(table) : x.urgency.s \in {"high", "p1"}}}
        n == Min(limit, Cardinality(high))
    IN  {q \in [1 .. n -> high] : \A a, b \in DOMAIN q : a # b => q[a] # q[b]}

(***************************************************************************)
(* The digest report.  The pictographs of the source are written with      *)
(* ASCII stand-ins of the same length in UTF-16 code units.                *)
(***************************************************************************)
ChartSign == "[]"

ThumbsUp == "+1"

NeutralFace == ":|"

ThumbsDown == "-1"

RedCircle == "!!"

Bullet == "*"

\* The sources of the stats rows in order of first appearance.
RECURSIVE SourceOrder(_, _, _)
SourceOrder(stats, k, seen) ==
    IF k > Len(stats) THEN <<>>
    ELSE IF stats[k].source \in seen THEN SourceOrder(stats, k + 1, seen)
    ELSE <<stats[k].source>> \o SourceOrder(stats, k + 1, seen \cup {stats[k].source})

RECURSIVE SumWhere(_, _, _, _)
SumWhere(stats, k, source, sentiments) ==
    IF k > Len(stats) THEN 0
    ELSE (IF stats[k].source = source /\ stats[k].sentiment \in sentiments
          THEN stats[k].count ELSE 0) + SumWhere(stats, k + 1, source, sentiments)

\* grouped[source] after the accumulation loop.
Grouped(stats, source) ==
    [pos |-> SumWhere(stats, 1, source, {"positive"}),
     neg |-> SumWhere(stats, 1, source, {"negative"}),
     neu |-> SumWhere(stats, 1, source,
                 {st.sentiment : st \in {stats[k] : k \in DOMAIN stats}}
                     \ {"positive", "negative"})]

RECURSIVE BreakdownLines(_, _, _)
BreakdownLines(stats, order, k) ==
    IF k > Len(order) THEN ""
    ELSE Bullet \o " " \o order[k] \o ": "
            \o ThumbsUp \o NumStr(Grouped(stats, order[k]).pos) \o " "
            \o NeutralFace \o NumStr(Grouped(stats, order[k]).neu) \o " "
            \o ThumbsDown \o NumStr(Grouped(stats, order[k]).neg) \o "\n"
            \o BreakdownLines(stats, order, k + 1)

RECURSIVE UrgentLines(_, _)
UrgentLines(highUrgency, k) ==
    IF k > Len(highUrgency) THEN ""
    ELSE Bullet \o " \"" \o Substring0(highUrgency[k].body_text.s, UrgentExcerptLimit)
            \o "...\"\n" \o UrgentLines(highUrgency, k + 1)

DigestHeader(date) == "**" \o ChartSign \o " Feedback Digest for " \o date \o "**\n\n"

\* digestContent before the length test, for an answer that is a string.
DigestText(date, searchResult, stats, totalCount, highUrgency) ==
    IF totalCount > 0
    THEN DigestHeader(date)
           \o "**Total feedback:** " \o NumStr(totalCount) \o "\n\n"
           \o (IF Len(stats) > 0
               THEN "**Breakdown by source & sentiment:**\n"
                      \o BreakdownLines(stats, SourceOrder(stats, 1, {}), 1)
                      \o "\n"
               ELSE "")
           \o "**Key Themes:**\n"
           \o Substring0(searchResult.answer.s, ThemesLimit)
           \o (IF Len(highUrgency) > 0
               THEN "\n\n**" \o RedCircle \o " High-Urgency Items:**\n"
                      \o UrgentLines(highUrgency, 1)
               ELSE "")
    ELSE DigestHeader(date) \o "No feedback recorded for this date."

\* The try block of handleDigestCommand after the reads: the digest text, or
\* the TypeError of answer.substring when the answer is no string.
ComposeDigest(date, searchResult, stats, totalCount, highUrgency) ==
    IF totalCount > 0 /\ searchResult.answer.t # "string" THEN Throw("TypeError")
    ELSE Ok(JStr(Truncate(
                DigestText(date, searchResult, stats, totalCount, highUrgency))))

(***************************************************************************)
(* The deferred commands: the synchronous reply and the background task    *)
(* registered with ctx.waitUntil.                                          *)
(***************************************************************************)
AskValidationMessage == "Please provide a query using the 'query' option."

AskErrorMessage == "Sorry, I encountered an error while searching. Please try again."

DigestErrorMessage ==
    "Sorry, I encountered an error generating the digest. Please try again."

\* The task as registered: the search call has been issued and is awaited.
NewTask(cmd, arg, interaction) ==
    [pc |-> "search", cmd |-> cmd, arg |-> arg,
     app |-> Get(interaction, "application_id"),
     token |-> Get(interaction, "token"),
     search |-> None, stats |-> <<>>, total |-> 0, content |-> JUndef,
     edits |-> <<>>, threw |-> FALSE]

\* What a command handler returns and what it registers.
Reply(body, t) == Ok([resp |-> Response(200, body), task |-> t])

\* handleAskCommand without the test of the query: it always defers.
handleAskCommandNoCheck(interaction) ==
    LET query == getStringOption(interaction, "query")
    IN  IF ~query.ok THEN query
        ELSE Reply(createDeferredResponse,
                NewTask("ask", String(query.v), interaction))

\* handleAskCommand up to its return.
handleAskCommand(interaction) ==
    LET query == getStringOption(interaction, "query")
    IN  IF ~query.ok THEN query
        ELSE IF ~Truthy(query.v)
        THEN Reply(createEphemeralResponse(AskValidationMessage), NoTask)
        ELSE Reply(createDeferredResponse, NewTask("ask", query.v.s, interaction))

\* handleDigestCommand without the waitUntil registration.
handleDigestCommandNoTask(interaction, now) ==
    LET dateOption == getStringOption(interaction, "date")
    IN  IF ~dateOption.ok THEN dateOption
        ELSE Reply(createDeferredResponse, NoTask)

\* handleDigestCommand up to its return; today is the day of the clock.
handleDigestCommand(interaction, now) ==
    LET dateOption == getStringOption(interaction, "date")
    IN  IF ~dateOption.ok THEN dateOption
        ELSE Reply(createDeferredResponse,
                NewTask("digest",
                    IF Truthy(dateOption.v) THEN dateOption.v.s ELSE BeforeT(now, 1),
                    interaction))

\* handleDiscordInteraction with every command and every other interaction
\* type acknowledged like a handshake.
handleDiscordInteractionPongAll(interaction, now) ==
    LET commandName == CommandName(interaction)
    IN  IF ~commandName.ok THEN commandName
        ELSE IF Get(interaction, "type") = JNum(APPLICATION_COMMAND)
                  /\ commandName.v = JStr("ask")
        THEN handleAskCommand(interaction)
        ELSE IF Get(interaction, "type") = JNum(APPLICATION_COMMAND)
                  /\ commandName.v = JStr("digest")
        THEN handleDigestCommand(interaction, now)
        ELSE Reply(createPongResponse, NoTask)

\* handleDiscordInteraction after request.json() resolved.
handleDiscordInteraction(interaction, now) ==
    LET commandName == CommandName(interaction)
    IN  IF ~commandName.ok THEN commandName
        ELSE IF Get(interaction, "type") = JNum(PING)
        THEN Reply(createPongResponse, NoTask)
        ELSE IF Get(interaction, "type") = JNum(APPLICATION_COMMAND)
        THEN IF commandName.v = JStr("ask") THEN handleAskCommand(interaction)
             ELSE IF commandName.v = JStr("digest")
             THEN handleDigestCommand(interaction, now)
             ELSE Reply(createEphemeralResponse(
                          "Unknown command: " \o String(commandName.v)), NoTask)
        ELSE Reply(createEphemeralResponse("Unsupported interaction type"), NoTask)

\* POST /interactions: the whole synchronous part of the request.
HandleInteraction(i) ==
    /\ req[i].pc = "recv"
    /\ Route(req[i].r) = "handleDiscordInteraction"
    /\ \E now \in Clock :
         IF ~req[i].r.body.ok
         THEN /\ req' = [req EXCEPT ![i].pc = "done",
                            ![i].resp = TextResponse(400, "Bad Request")]
              /\ task' = task
         ELSE LET h == handleDiscordInteraction(req[i].r.body.v, now)
              IN  IF h.ok
                  THEN /\ req' = [req EXCEPT ![i].pc = "done", ![i].resp = h.v.resp]
                       /\ task' = [task EXCEPT ![i] = h.v.task]
                  ELSE /\ Fail(i, h.err)
                       /\ task' = task
    /\ UNCHANGED <<val, r2, db>>

EditUrl(app, token) ==
    "https://discord.com/api/v10/webhooks/" \o String(app) \o "/" \o String(token)
        \o "/messages/@original"

\* The outcomes of the PATCH request of editOriginalResponse: an OK status, a
\* non-OK status (logged, not thrown), or fetch rejecting.
EditOutcomes == {"ok", "status", "throw"}

\* editOriginalResponse: the request as issued, with how it ended.
Edit(t, content, outcome) ==
    [method |-> "PATCH", url |-> EditUrl(t.app, t.token),
     body |-> JObj([content |-> content]), outcome |-> outcome]

SearchOutcomes ==
    {Throw("SearchError"),
     Ok(JNull),
     Ok(JObj([response |-> JStr("D1 latency is the top complaint.")])),
     Ok(JObj([response |-> JNum(5)])),
     Ok(JObj([data |-> JObj([response |-> JStr("Users report slow D1 queries."),
                             sources |-> JArr(<<JObj([content |-> JStr("D1 queries are slow"),
                                                      filename |-> JStr("fb-1.json")])>>)])])),
     Ok(JObj([data |-> JObj([sources |-> JStr("none")])]))}

\* The search call of the task settles (queryAiSearch / generateDigest); the
\* ask command goes on to summarizeForDiscord.  threw records whether the
\* aiSearch call rejected.
TaskSearch(i) ==
    /\ task[i].pc = "search"
    /\ \E out \in SearchOutcomes :
         LET sr == queryAiSearch(out)
         IN  IF task[i].cmd = "ask"
             THEN task' = [task EXCEPT ![i].pc = "edit", ![i].threw = ~out.ok,
                              ![i].content = summarizeForDiscord(sr)]
             ELSE task' = [task EXCEPT ![i].pc = "stats", ![i].threw = ~out.ok,
                              ![i].search = sr]
    /\ UNCHANGED <<val, r2, db, req>>

\* const stats = await getDailyStats(env.DB, date)
TaskStats(i) ==
    /\ task[i].pc = "stats"
    /\ \/ \E st \in getDailyStats(db, task[i].arg) :
            task' = [task EXCEPT ![i].pc = "count", ![i].stats = st]
       \/ task' = [task EXCEPT ![i].pc = "editError"]
    /\ UNCHANGED <<val, r2, db, req>>

\* const totalCount = await getFeedbackCount(env.DB, date)
TaskCount(i) ==
    /\ task[i].pc = "count"
    /\ \/ task' = [task EXCEPT ![i].pc = "sample",
                      ![i].total = getFeedbackCount(db, task[i].arg)]
       \/ task' = [task EXCEPT ![i].pc = "editError"]
    /\ UNCHANGED <<val, r2, db, req>>

\* const highUrgency = await getHighUrgencySample(env.DB, 3), and the
\* composition of the report.
TaskSample(i) ==
    /\ task[i].pc = "sample"
    /\ \/ \E hs \in getHighUrgencySample(db, SampleLimit) :
            LET c == ComposeDigest(task[i].arg, task[i].search, task[i].stats,
                                   task[i].total, hs)
            IN  IF c.ok
                THEN task' = [task EXCEPT ![i].pc = "edit", ![i].content = c.v]
                ELSE task' = [task EXCEPT ![i].pc = "editError"]
       \/ task' = [task EXCEPT ![i].pc = "editError"]
    /\ UNCHANGED <<val, r2, db, req>>

\* await editOriginalResponse(application_id, token, <rendering>) at the end
\* of the try block: a rejection of fetch lands in the catch clause.
TaskEdit(i) ==
    /\ task[i].pc = "edit"
    /\ \E o \in EditOutcomes :
         task' = [task EXCEPT
                    ![i].pc = IF o = "throw" THEN "editError" ELSE "done",
                    ![i].edits = Append(@, Edit(task[i], task[i].content, o))]
    /\ UNCHANGED <<val, r2, db, req>>

ErrorMessage(cmd) == IF cmd = "ask" THEN AskErrorMessage ELSE DigestErrorMessage

\* The catch clause: await editOriginalResponse(.., <error message>); when
\* this request rejects too, the promise given to waitUntil rejects.
TaskEditError(i) ==
    /\ task[i].pc = "editError"
    /\ \E o \in EditOutcomes :
         task' = [task EXCEPT
                    ![i].pc = IF o = "throw" THEN "rejected" ELSE "done",
                    ![i].edits = Append(@, Edit(task[i],
                                     JStr(ErrorMessage(task[i].cmd)), o))]
    /\ UNCHANGED <<val, r2, db, req>>

(***************************************************************************)
(* The interaction payloads posted to /interactions.                       *)
(***************************************************************************)
STRING_OPTION == 3

Opt(name, value) ==
    MkObj([name |-> JStr(name), type |-> JNum(STRING_OPTION), value |-> value])

OptionLists ==
    {JUndef,
     JArr(<<>>),
     JArr(<<Opt("query", JStr(""))>>),
     JArr(<<Opt("query", JUndef)>>),
     JArr(<<Opt("query", JStr("slow d1"))>>),
     JArr(<<Opt("date", JStr("2026-01-09"))>>),
     JArr(<<Opt("date", JStr("2026-01-08"))>>),
     JStr("oops")}

CommandData ==
    {MkObj([id |-> JStr("cmd-id"), name |-> JStr(n), options |-> o]) :
        n \in {"ask", "ASK", "digest"}, o \in OptionLists}
      \cup {MkObj([id |-> JStr("cmd-id"), name |-> n]) :
              n \in {JUndef, JNull, JStr("unknown_command"), JStr("Stats"), JNum(7)}}

Interaction(i, type, data) ==
    MkObj([id |-> JStr("interaction-" \o NumStr(i)), type |-> JNum(type),
           application_id |-> JStr("app-" \o NumStr(i)),
           token |-> JStr("token-" \o NumStr(i)), version |-> JNum(1),
           data |-> data])

MESSAGE_COMPONENT == 3

AskWithQuery ==
    MkObj([id |-> JStr("cmd-id"), name |-> JStr("ask"),
           options |-> JArr(<<Opt("query", JStr("slow d1"))>>)])

InteractionBodies(i) ==
    {Throw("SyntaxError"), Ok(JNull)}
      \cup {Ok(Interaction(i, APPLICATION_COMMAND, d)) : d \in CommandData \cup {JUndef}}
      \cup {Ok(Interaction(i, PING, d)) :
              d \in {JUndef, AskWithQuery, MkObj([name |-> JNum(7)])}}
      \cup {Ok(Interaction(i, MESSAGE_COMPONENT, d)) : d \in {JUndef, AskWithQuery}}

InteractionRequests(i) ==
    {[method |-> "POST", path |-> "/interactions", body |-> b] :
        b \in InteractionBodies(i)}

(***************************************************************************)
(* POST /ask                                                               *)
(***************************************************************************)
AskBodies ==
    {Throw("SyntaxError"), Ok(JNull), Ok(JNum(5)), Ok(JObj(<<>>)),
     Ok(JObj([query |-> JStr("")])), Ok(JObj([query |-> JNull])),
     Ok(JObj([query |-> JStr("slow d1")])),
     Ok(JObj([question |-> JStr("slow d1")]))}

AskRequests == {[method |-> "POST", path |-> "/ask", body |-> b] : b \in AskBodies}

\* The entry of the operations log for the aiSearch call.
Searched(out) == [op |-> "search", ok |-> out.ok]

\* searchResult.citations as the value Response.json serialises.
CitationValues(citations) ==
    JArr([k \in 1 .. Len(citations) |->
            MkObj([text |-> JStr(citations[k].text),
                   source_url |-> citations[k].source_url])])

\* searchResult.raw: the value aiSearch resolved to, or the error text when
\* the try block threw.
RawOf(out) ==
    IF queryAiSearch(out) = Fallback
    THEN JObj([error |-> JStr(IF out.ok THEN "TypeError" ELSE out.err)])
    ELSE out.v

\* The success response of handleAsk.
AskResponse(query, out) ==
    Response(200,
        JObj([query |-> query,
              answer |-> summarizeForDiscord(queryAiSearch(out)),
              citations |-> CitationValues(queryAiSearch(out).citations),
              debug |-> JObj([raw_response |-> RawOf(out)])]))

\* handleAsk, the whole handler: request.json(), the test of the query, the
\* search and the rendering.
HandleAsk(i) ==
    /\ req[i].pc = "recv"
    /\ Route(req[i].r) = "handleAsk"
    /\ IF ~req[i].r.body.ok THEN Fail(i, req[i].r.body.err)
       ELSE IF ~CanRead(req[i].r.body.v) THEN Fail(i, "TypeError")
       ELSE IF ~Truthy(Get(req[i].r.body.v, "query"))
       THEN req' = [req EXCEPT ![i].pc = "done",
                       ![i].resp = Response(400,
                           JObj([error |-> JStr("Missing required field: query")]))]
       ELSE \E out \in SearchOutcomes :
              req' = [req EXCEPT ![i].pc = "done",
                         ![i].ops = Append(@, Searched(out)),
                         ![i].resp = AskResponse(Get(req[i].r.body.v, "query"), out)]
    /\ UNCHANGED <<val, r2, db, task>>

\* The requests of the question-answering runs: interactions and POST /ask.
ChatRequests(i) == InteractionRequests(i) \cup AskRequests

\* The rows two earlier ingestions left in the table.
Fb3 ==
    [id |-> JStr("fb-3"), created_at |-> JStr("2026-01-09T17:45:00.000Z"),
     source |-> JStr("github"), product_area |-> JStr("workers"),
     body_text |-> JStr("Deploys are quick"), sentiment |-> JStr("positive"),
     urgency |-> JStr("low"), tags |-> JArr(<<>>)]

Validated(data) ==
    validateFeedback(JObj(data), "uuid-0", "2026-01-09T08:00:00.000Z").v

Stored(bucket, data) == storeFeedbackInR2(bucket, Validated(data))

Ingested(table, data) ==
    upsertFeedback(table, Validated(data), getFeedbackR2Key(Validated(data)))

NumChats == 1

Chats == 1 .. NumChats

InitChat ==
    /\ val = None
    /\ r2 = Stored(Stored(EmptyStore, Fb1), Fb3)
    /\ db = Ingested(Ingested(EmptyStore, Fb1), Fb3)
    /\ req \in {q \in [Chats -> UNION {{NewReq(r) : r \in ChatRequests(i)} :
                                         i \in Chats}] :
                  \A i \in Chats : q[i].r \in ChatRequests(i)}
    /\ task = [i \in Chats |-> NoTask]

NextChat ==
    \E i \in Chats :
        \/ HandleInteraction(i)
        \/ HandleAsk(i)
        \/ TaskSearch(i)
        \/ TaskStats(i)
        \/ TaskCount(i)
        \/ TaskSample(i)
        \/ TaskEdit(i)
        \/ TaskEditError(i)

SpecChat == InitChat /\ [][NextChat]_vars

(***************************************************************************)
(* Properties of the interaction protocol.                                 *)
(***************************************************************************)
Payload(i) == req[i].r.body.v

IsCommand(i, names) ==
    /\ req[i].r.body.ok
    /\ Get(Payload(i), "type") = JNum(APPLICATION_COMMAND)
    /\ Get(Get(Payload(i), "data"), "name") \in {JStr(n) : n \in names}

OptionsOf(i) == Get(Get(Payload(i), "data"), "options")

\* The options are absent or a list of option objects.
OptionsWellFormed(i) ==
    \/ OptionsOf(i) = JUndef
    \/ /\ OptionsOf(i).t = "array"
       /\ \A k \in 1 .. Len(OptionsOf(i).a) : OptionsOf(i).a[k].t = "object"

\* Some option called name carries a non-empty text.
HasOptionText(i, name) ==
    /\ OptionsOf(i).t = "array"
    /\ \E k \in 1 .. Len(OptionsOf(i).a) :
          /\ Get(OptionsOf(i).a[k], "name") = JStr(name)
          /\ Get(OptionsOf(i).a[k], "value").t = "string"
          /\ Get(OptionsOf(i).a[k], "value").s # ""

AskNames == {"ask", "ASK"}

IsAskWithoutQuery(i) ==
    IsCommand(i, AskNames) /\ OptionsWellFormed(i) /\ ~HasOptionText(i, "query")

IsDeferredCommand(i) ==
    /\ req[i].r.body.ok
    /\ OptionsWellFormed(i)
    /\ \/ IsCommand(i, AskNames) /\ HasOptionText(i, "query")
       \/ IsCommand(i, {"digest"})

Contains(s, sub) ==
    \E k \in 1 .. Len(s) : k + Len(sub) - 1 <= Len(s) /\ SubSeq(s, k, k + Len(sub) - 1) = sub

Finished(t) == t.pc \in {"done", "rejected"}

\* C3: every interaction answered with a deferred acknowledgment gets exactly
\* one completion edit, a PATCH addressed with its own application_id and
\* token: never two, and one once the background task has ended.
C3_ExactlyOneEdit ==
    \A i \in DOMAIN req :
        task[i] # NoTask =>
            /\ Len(task[i].edits) <= 1
            /\ Finished(task[i]) => Len(task[i].edits) = 1
            /\ \A k \in 1 .. Len(task[i].edits) :
                  /\ task[i].edits[k].method = "PATCH"
                  /\ task[i].edits[k].url =
                        EditUrl(Get(Payload(i), "application_id"),
                                Get(Payload(i), "token"))

C5_HandshakePong ==
    \A i \in DOMAIN req :
        (req[i].r.body.ok /\ Get(Payload(i), "type") = JNum(PING)) =>
            /\ task[i] = NoTask
            /\ req[i].pc = "done" =>
                  /\ req[i].resp.kind = "response"
                  /\ req[i].resp.status = 200
                  /\ req[i].resp.body = createPongResponse

IsDigestTask(i) == task[i] # NoTask /\ task[i].cmd = "digest"

NoRowOnDay(table, date) == \A r \in Rows(table) : ~OnDay(r, date)

NoFeedbackText(date) == DigestHeader(date) \o "No feedback recorded for this date."

\* C11: a digest for a calendar day on which the table holds no row renders
\* the header followed by the single no-feedback line, whatever rows the
\* table holds for other days.
C11_EmptyDayDigest ==
    \A i \in DOMAIN req :
        (/\ IsDigestTask(i)
         /\ IsDay(task[i].arg)
         /\ NoRowOnDay(db, task[i].arg)
         /\ task[i].content # JUndef) =>
            task[i].content = JStr(NoFeedbackText(task[i].arg))

(***************************************************************************)
(* The two renderings as functions of their inputs: summarizeForDiscord on *)
(* a search result, and the digest text on the search result and the three *)
(* reads.                                                                  *)
(***************************************************************************)
\* The text s repeated n times.
RECURSIVE Rep(_, _)
Rep(s, n) ==
    IF n = 0 THEN ""
    ELSE Rep(s, n \div 2) \o Rep(s, n \div 2) \o (IF n % 2 = 1 THEN s ELSE "")

MaxCites == 4

AnswerLengths == {0, 29, 1850, 1897, 1899, 1900, 1901, 2400}

CiteLengths == {0, 60, 200}

CiteLists ==
    UNION {[1 .. n -> {[text |-> Rep("c", l), source_url |-> JStr("fb-1.json")] :
                          l \in CiteLengths}] : n \in 0 .. MaxCites}

AskInputs ==
    {[op |-> "ask",
      searchResult |-> [answer |-> JStr(Rep("a", n)), citations |-> cs],
      out |-> None] : n \in AnswerLengths, cs \in CiteLists}

StatsInputs ==
    {<<>>,
     <<[source |-> "discord", product_area |-> "d1", sentiment |-> "negative", count |-> 2],
       [source |-> "github", product_area |-> "workers", sentiment |-> "positive", count |-> 1],
       [source |-> "discord", product_area |-> "r2", sentiment |-> "mixed", count |-> 1]>>}

UrgentInputs ==
    {<<>>,
     [k \in 1 .. SampleLimit |->
         [body_text |-> JStr(Rep("u", 150)), source_url |-> JNull]]}

DigestInputs ==
    {[op |-> "digest", date |-> d,
      searchResult |-> [answer |-> JStr(Rep("a", n)), citations |-> <<>>],
      stats |-> st, totalCount |-> tc, highUrgency |-> hu, out |-> None] :
        d \in {"2026-01-09", Rep("9", 1000), Rep("9", 1890)},
        n \in {29, 800, 2400}, st \in StatsInputs, tc \in {0, 4}, hu \in UrgentInputs}

InitRender ==
    /\ val \in AskInputs \cup DigestInputs
    /\ r2 = EmptyStore
    /\ db = EmptyStore
    /\ req = [i \in Reqs |-> None]
    /\ task = [i \in Reqs |-> NoTask]

RenderAsk ==
    /\ val.op = "ask"
    /\ val.out = None
    /\ val' = [val EXCEPT !.out = summarizeForDiscord(val.searchResult)]
    /\ UNCHANGED <<r2, db, req, task>>

RenderDigest ==
    /\ val.op = "digest"
    /\ val.out = None
    /\ val' = [val EXCEPT !.out = ComposeDigest(val.date, val.searchResult, val.stats,
                                      val.totalCount, val.highUrgency).v]
    /\ UNCHANGED <<r2, db, req, task>>

NextRender == RenderAsk \/ RenderDigest

SpecRender == InitRender /\ [][NextRender]_vars

\* The untruncated composition of the rendering in val.
Composition ==
    IF val.op = "ask" THEN AskText(val.searchResult)
    ELSE DigestText(val.date, val.searchResult, val.stats, val.totalCount,
                    val.highUrgency)

\* C12: every rendering is at most 1900 characters long; a composition longer
\* than 1900 characters is rendered as its first 1897 characters followed by
\* "...", and any other composition is rendered unchanged.
C12_RenderingBounded ==
    val.out # None =>
        /\ val.out.t = "string"
        /\ Len(val.out.s) <= 1900
        /\ Len(Composition) > 1900 =>
              val.out.s = SubSeq(Composition, 1, 1897) \o "..."
        /\ Len(Composition) <= 1900 => val.out.s = Composition

\* C12 witness: a digest whose composition is longer than 1900 characters
\* has been rendered.
C12_Witness ==
    /\ val.out # None
    /\ val.op = "digest"
    /\ val.totalCount > 0
    /\ Len(Composition) > 1900

(***************************************************************************)
(* The row form read back, and the key and the row of one record as        *)
(* functions of the record the validator returned.                         *)
(***************************************************************************)
\* v ?? undefined
OrUndefined(v) == IF v.t \in {"undefined", "null"} THEN JUndef ELSE v

\* rowToFeedback with the tags column ignored.
rowToFeedbackNoTags(row) ==
    [id |-> row.id,
     created_at |-> row.created_at,
     source |-> row.source,
     source_url |-> OrUndefined(row.source_url),
     product_area |-> row.product_area,
     title |-> OrUndefined(row.title),
     author |-> OrUndefined(row.author),
     thread_id |-> OrUndefined(row.thread_id),
     body_text |-> row.body_text,
     sentiment |-> row.sentiment,
     urgency |-> row.urgency,
     tags |-> JArr(<<>>),
     confidence |-> IF Truthy(row.confidence_json)
                    THEN JSONparse(row.confidence_json.tok).v ELSE JUndef,
     r2_key |-> row.r2_key]

\* rowToFeedback on a row whose two JSON columns hold null or a text that
\* JSON.stringify wrote.
rowToFeedback(row) ==
    [id |-> row.id,
     created_at |-> row.created_at,
     source |-> row.source,
     source_url |-> OrUndefined(row.source_url),
     product_area |-> row.product_area,
     title |-> OrUndefined(row.title),
     author |-> OrUndefined(row.author),
     thread_id |-> OrUndefined(row.thread_id),
     body_text |-> row.body_text,
     sentiment |-> row.sentiment,
     urgency |-> row.urgency,
     tags |-> IF Truthy(row.tags_json)
              THEN JSONparse(row.tags_json.tok).v ELSE JArr(<<>>),
     confidence |-> IF Truthy(row.confidence_json)
                    THEN JSONparse(row.confidence_json.tok).v ELSE JUndef,
     r2_key |-> row.r2_key]

RowTags ==
    {JUndef, JArr(<<JStr("bug")>>), JArr(<<JStr("bug"), JStr("d1")>>),
     JArr(<<JStr("d1"), JNum(1), JStr("bug")>>)}

RowConfidences ==
    {JUndef, JObj(<<>>), JObj([sentiment |-> JNum(1)]),
     JObj([product_area |-> JNum(0), sentiment |-> JNum(1), urgency |-> JNum(2)])}

RowCreatedAts ==
    {JUndef, JStr("2026-01-09T08:00:00.000Z"), JStr("2026-01-09 08:00:00"),
     JStr("2026-01-09"), JStr("yesterday"), JNum(1767945600)}

RowCandidates ==
    {MkObj([id |-> JStr("fb-1"), created_at |-> ca, source |-> so,
            source_url |-> su, title |-> ti, tags |-> tg, confidence |-> co,
            content |-> JStr("D1 queries are slow")]) :
        ca \in RowCreatedAts, so \in {JStr("discord"), JStr("Discord")},
        su \in {JUndef, JStr("https://example.com/1")},
        ti \in {JUndef, JStr(""), JStr("Slow D1")},
        tg \in RowTags, co \in RowConfidences}

RowKeys == {"k"}

InitRow ==
    /\ val \in {[f |-> validateFeedback(c, "uuid-0", now).v,
                 key |-> None, k |-> None, rt |-> None] :
                    c \in RowCandidates, now \in Clock}
    /\ r2 = EmptyStore
    /\ db = EmptyStore
    /\ req = [i \in Reqs |-> None]
    /\ task = [i \in Reqs |-> NoTask]

\* const key = getFeedbackR2Key(feedback)
MakeKey ==
    /\ val.key = None
    /\ val' = [val EXCEPT !.key = JStr(getFeedbackR2Key(val.f))]
    /\ UNCHANGED <<r2, db, req, task>>

\* rowToFeedback(feedbackToRow(feedback, k))
RoundTrip ==
    /\ val.rt = None
    /\ \E k \in RowKeys \cup {getFeedbackR2Key(val.f)} :
         val' = [val EXCEPT !.k = JStr(k),
                            !.rt = rowToFeedback(feedbackToRow(val.f, k))]
    /\ UNCHANGED <<r2, db, req, task>>

NextRow == MakeKey \/ RoundTrip

SpecRow == InitRow /\ [][NextRow]_vars

\* Two values with the same content: equal once the properties that hold
\* undefined are left out.
SameContent(a, b) == JSONvalue(a) = JSONvalue(b)

PlainFields ==
    {"id", "created_at", "source", "source_url", "product_area", "title",
     "author", "thread_id", "body_text", "sentiment", "urgency"}

IsAskRequest(i) == Route(req[i].r) = "handleAsk"

\* C14: a POST /ask whose JSON body carries no query, or an empty one, is
\* answered with status 400 and an error text that mentions query, and the
\* search service is not called.
C14_AskMissingQuery ==
    \A i \in DOMAIN req :
        (/\ IsAskRequest(i)
         /\ req[i].r.body.ok
         /\ ~Truthy(Get(req[i].r.body.v, "query"))
         /\ req[i].pc = "done") =>
            /\ req[i].resp.kind = "response"
            /\ req[i].resp.status = 400
            /\ Contains(Get(req[i].resp.body, "error").s, "query")
            /\ req[i].ops = <<>>

FallbackText == "Unable to search feedback at this time."

SearchThrew(ops) == \E k \in 1 .. Len(ops) : ops[k] = [op |-> "search", ok |-> FALSE]

\* C15: when the search call throws, POST /ask with a query still answers
\* with status 200, the fixed fallback text as answer and no citations, and
\* the first completion edit of a chat ask command carries that text.
C15_SearchFallback ==
    \A i \in DOMAIN req :
        /\ (IsAskRequest(i) /\ SearchThrew(req[i].ops)) =>
              /\ req[i].resp.kind = "response"
              /\ req[i].resp.status = 200
              /\ Get(req[i].resp.body, "answer") = JStr(FallbackText)
              /\ Get(req[i].resp.body, "citations") = JArr(<<>>)
        /\ (task[i] # NoTask /\ task[i].cmd = "ask" /\ task[i].threw) =>
              /\ task[i].pc \in {"edit", "editError", "done", "rejected"}
              /\ task[i].content = JStr(FallbackText)
              /\ \A k \in 1 .. Len(task[i].edits) :
                    k = 1 => Get(task[i].edits[k].body, "content") = JStr(FallbackText)

\* A POST /ask whose search call threw has been answered.
AskAnsweredAfterThrow ==
    \E i \in DOMAIN req :
        IsAskRequest(i) /\ SearchThrew(req[i].ops) /\ req[i].pc = "done"

\* C15 witness: the search call of a chat ask command threw and its
\* completion edit has been sent.
C15_Witness ==
    \E i \in DOMAIN req :
        /\ task[i] # NoTask /\ task[i].cmd = "ask" /\ task[i].threw
        /\ task[i].pc = "done" /\ Len(task[i].edits) = 1

(***************************************************************************)
(* Properties of the rows and keys ingestion leaves.                       *)
(***************************************************************************)
\* The table holds one row per id: the row found under an id carries it.
OneRowPerId == \A k \in DOMAIN db : db[k].id = JStr(k)

\* Request i completes its upsert in this step.
UpsertCompletes(i) ==
    /\ req[i].pc = "d1"
    /\ req'[i].ops = Append(req[i].ops, UpsertOk)

\* C16: the table never holds two rows for one id, and the step of a
\* successful upsert leaves, under the record's id, exactly the flattened
\* form of that record in every column, and every other row as it was.
C16_LastWriteWins ==
    /\ []OneRowPerId
    /\ [][\A i \in Reqs :
            UpsertCompletes(i) =>
                /\ DOMAIN db' = DOMAIN db \cup {req[i].feedback.id.s}
                /\ db'[req[i].feedback.id.s] =
                      feedbackToRow(req[i].feedback, req[i].r2Key.s)
                /\ \A k \in DOMAIN db \ {req[i].feedback.id.s} : db'[k] = db[k]]_vars

\* C16 witness: a record with tags and confidence was upserted, then a
\* record with the same id and neither, and the row now holds null in both
\* columns.
C16_Witness ==
    \E i, j \in Reqs :
        /\ i # j
        /\ req[i].ops = <<PutOk, UpsertOk>>
        /\ req[j].ops = <<PutOk, UpsertOk>>
        /\ req[i].feedback.id = req[j].feedback.id
        /\ Len(req[i].feedback.tags.a) > 0
        /\ req[i].feedback.confidence # JUndef
        /\ db[req[j].feedback.id.s].tags_json = JNull
        /\ db[req[j].feedback.id.s].confidence_json = JNull
        /\ db[req[j].feedback.id.s].body_text = req[j].feedback.body_text
        /\ req[i].feedback.body_text # req[j].feedback.body_text

\* The calendar day a created_at text begins with, when it begins with one.
StartsWithDay(s) == Len(s) >= 10 /\ IsDay(SubSeq(s, 1, 10))

\* C17: the key of a record is 'feedback/dt=' + D + '/source=' + source +
\* '/' + id + '.json' with D the calendar day of its created_at, for every
\* created_at text the validator returns that names a calendar day.
C17_KeyConvention ==
    (val.key # None /\ StartsWithDay(val.f.created_at.s)) =>
        val.key = JStr("feedback/dt=" \o SubSeq(val.f.created_at.s, 1, 10)
                         \o "/source=" \o val.f.source.s
                         \o "/" \o val.f.id.s \o ".json")

(***************************************************************************)
(* Properties of the validator's coercions.                                *)
(***************************************************************************)
\* What the claim prescribes for one enum field: the candidate's own value
\* when it is a member of the closed set, the default otherwise.
Prescribed(v, valid, default) ==
    IF v.t = "string" /\ "s" \in DOMAIN v /\ v.s \in valid THEN v ELSE JStr(default)

\* C18: each enum field of the returned record is the candidate's value for
\* that field when it is in the closed set and the fixed default otherwise
\* (email, other, neutral, medium), whatever the other fields hold.
C18_EnumCoercion ==
    Returned =>
        /\ val.out.v.source =
              Prescribed(Get(val.cand, "source"),
                         {"discord", "github", "support", "twitter", "email"}, "email")
        /\ val.out.v.product_area =
              Prescribed(Get(val.cand, "product_area"),
                         {"auth", "billing", "workers", "ai", "workers-ai", "d1", "r2",
                          "other"}, "other")
        /\ val.out.v.sentiment =
              Prescribed(Get(val.cand, "sentiment"),
                         {"positive", "neutral", "negative"}, "neutral")
        /\ val.out.v.urgency =
              Prescribed(Get(val.cand, "urgency"),
                         {"low", "medium", "high", "p1"}, "medium")

\* C18 witness: one returned record keeps a legal urgency next to a source
\* in the wrong case, an out-of-set product_area and a sentiment of the
\* wrong type, each replaced by its default.
C18_Witness ==
    /\ Returned
    /\ Get(val.cand, "source") = JStr("GitHub") /\ val.out.v.source = JStr("email")
    /\ Get(val.cand, "product_area") = JStr("database")
    /\ val.out.v.product_area = JStr("other")
    /\ Get(val.cand, "sentiment") = JBool(TRUE)
    /\ val.out.v.sentiment = JStr("neutral")
    /\ Get(val.cand, "urgency") = JStr("p1") /\ val.out.v.urgency = JStr("p1")

(***************************************************************************)
(* normalizeFeedback as a function of the model's text: the same JSON text *)
(* bare, and wrapped in a fenced code block with a language tag.           *)
(***************************************************************************)
\* The language tags of the opening marker; "" is the bare marker.
FenceTags == {"", "json", "JSON", "js", "jsonc", "javascript"}

\* The opening marker with tag L, the text of v on lines of its own, and the
\* closing marker.
Fenced(L, v) ==
    (IF L = "" THEN <<Fence>> ELSE <<Fence, Word(L)>>) \o <<NL, Json(v), NL, Fence>>

FencePaddings == {<<>>, <<NL>>}

InitFence ==
    /\ val \in {[j |-> v, tag |-> L, pad |-> p, plain |-> None, fenced |-> None] :
                   v \in IngestCandidates, L \in FenceTags, p \in FencePaddings}
    /\ r2 = EmptyStore
    /\ db = EmptyStore
    /\ req = [i \in Reqs |-> None]
    /\ task = [i \in Reqs |-> NoTask]

\* normalizeFeedback when the model returns the bare text.
NormalizePlain ==
    /\ val.plain = None
    /\ \E now \in Clock :
         val' = [val EXCEPT !.plain =
                    normalizeFeedback(JObj([response |-> JText(<<Json(val.j)>>)]),
                                      "uuid-0", now)]
    /\ UNCHANGED <<r2, db, req, task>>

\* normalizeFeedback when the model returns the text in a fenced block.
NormalizeFenced ==
    /\ val.fenced = None
    /\ \E now \in Clock :
         val' = [val EXCEPT !.fenced =
                    normalizeFeedback(
                        JObj([response |-> JText(val.pad \o Fenced(val.tag, val.j)
                                                    \o val.pad)]),
                        "uuid-0", now)]
    /\ UNCHANGED <<r2, db, req, task>>

NextFence == NormalizePlain \/ NormalizeFenced

SpecFence == InitFence /\ [][NextFence]_vars

\* C19: normalize gives the same result for a JSON text wrapped in a fenced
\* block, whatever the language tag of the opening marker, as for the text
\* alone.
C19_FenceStripping ==
    (val.plain # None /\ val.fenced # None) => val.fenced = val.plain

(***************************************************************************)
(* Properties of what ingestion keeps of the raw input.                    *)
(***************************************************************************)
RawOfReq(i) == req[i].r.body.v

\* Request i has a validated record.
HasRecord(i) == req[i].r.body.ok /\ req[i].feedback # JUndef

\* C20: the record of an ingestion carries the id of the raw input when the
\* raw input has one, and the generated id only when it has none; and it
\* carries the source of the raw input when that is a legal source.  This is
\* to hold for every text the model returns.
C20_RawIdentityKept ==
    \A i \in Reqs :
        HasRecord(i) =>
            /\ Truthy(Get(RawOfReq(i), "id")) =>
                  req[i].feedback.id = Get(RawOfReq(i), "id")
            /\ req[i].feedback.id = JStr(Uuid(i)) => ~Truthy(Get(RawOfReq(i), "id"))
            /\ (/\ Get(RawOfReq(i), "source").t = "string"
                /\ Get(RawOfReq(i), "source").s \in validSources) =>
                  req[i].feedback.source = Get(RawOfReq(i), "source")

(***************************************************************************)
(* Properties of the non-enum fields the validator returns.                *)
(***************************************************************************)
ConfidenceKeys == {"product_area", "sentiment", "urgency"}

\* A sub-score that is absent or a number in [0,1].
ScoreInRange(v) == v = JUndef \/ (v.t = "number" /\ v.n >= 0 /\ v.n <= 1)

\* C21: every record the validator returns has a title that is absent or at
\* most 100 characters long, and every confidence entry present is a number
\* in [0,1]; a sub-score that is no number gives an absent entry.
C21_RangeConstraints ==
    Returned =>
        /\ val.out.v.title = JUndef \/ Len(val.out.v.title.s) <= 100
        /\ val.out.v.confidence # JUndef =>
              \A k \in ConfidenceKeys :
                  /\ ScoreInRange(Get(val.out.v.confidence, k))
                  /\ Get(Get(val.cand, "confidence"), k).t # "number" =>
                        Get(val.out.v.confidence, k) = JUndef

(***************************************************************************)
(* Properties of the content of the completion edits.                      *)
(***************************************************************************)
\* The background computation of the task threw: the task reached its catch
\* clause before a rendering existed.
ComputationThrew(t) == t.content = JUndef

EditContent(e) == Get(e.body, "content")

\* C22: a completion edit carries the fixed error message of its command
\* exactly when the background computation threw, and the rendering
\* otherwise; so no error message follows a rendering already sent.
C22_EditContent ==
    \A i \in DOMAIN req :
        task[i] # NoTask =>
            \A k \in 1 .. Len(task[i].edits) :
                /\ EditContent(task[i].edits[k]) = JStr(ErrorMessage(task[i].cmd))
                      <=> ComputationThrew(task[i])
                /\ ~ComputationThrew(task[i]) =>
                      EditContent(task[i].edits[k]) = task[i].content

(***************************************************************************)
(* Properties of the interactions that are neither handshake nor a known   *)
(* command, and of the router.                                             *)
(***************************************************************************)
IsInteractionRequest(i) == Route(req[i].r) = "handleDiscordInteraction"

NameOf(i) == Get(Get(Payload(i), "data"), "name")

\* The payload is an interaction object whose command name is a text or
\* absent.
NamedOrNameless(i) ==
    /\ IsInteractionRequest(i)
    /\ req[i].r.body.ok
    /\ CanRead(Payload(i))
    /\ NameOf(i).t \in {"string", "undefined", "null"}

\* The command name as the handler compares and reports it.
ReportedName(i) ==
    IF NameOf(i).t = "string" THEN ToLowerCase(NameOf(i).s) ELSE "undefined"

IsUnknownCommand(i) ==
    /\ NamedOrNameless(i)
    /\ Get(Payload(i), "type") = JNum(APPLICATION_COMMAND)
    /\ ReportedName(i) \notin {"ask", "digest"}

IsOtherType(i) ==
    /\ NamedOrNameless(i)
    /\ Get(Payload(i), "type") \notin {JNum(PING), JNum(APPLICATION_COMMAND)}

IsPrivateMessage(resp, text) ==
    /\ resp.kind = "response"
    /\ resp.status = 200
    /\ Get(resp.body, "type") = JNum(CHANNEL_MESSAGE_WITH_SOURCE)
    /\ Get(Get(resp.body, "data"), "flags") = JNum(EPHEMERAL)
    /\ Get(Get(resp.body, "data"), "content") = JStr(text)

StatValues(stats) ==
    JArr([k \in 1 .. Len(stats) |->
            JObj([source |-> JStr(stats[k].source),
                  product_area |-> JStr(stats[k].product_area),
                  sentiment |-> JStr(stats[k].sentiment),
                  count |-> JNum(stats[k].count)])])

SampleValues(highUrgency) ==
    JArr([k \in 1 .. Len(highUrgency) |-> JObj(highUrgency[k])])

DigestResponse(date, searchResult, stats, totalCount, highUrgency) ==
    Response(200,
        JObj([date |-> date,
              total_feedback |-> JNum(totalCount),
              stats_by_source_sentiment |-> StatValues(stats),
              high_urgency_samples |-> SampleValues(highUrgency),
              ai_summary |-> searchResult.answer,
              citations |-> CitationValues(searchResult.citations)]))

\* body.date || new Date().toISOString().split('T')[0]
DigestDate(body, now) == OrElse(Get(body, "date"), JStr(BeforeT(now, 1)))

\* handleDigest, the whole handler: request.json(), the search, the three
\* reads (each of which may reject) and the response.
HandleDigest(i) ==
    /\ req[i].pc = "recv"
    /\ Route(req[i].r) = "handleDigest"
    /\ \E now \in Clock :
         IF ~req[i].r.body.ok THEN Fail(i, req[i].r.body.err)
         ELSE IF ~CanRead(req[i].r.body.v) THEN Fail(i, "TypeError")
         ELSE \E out \in SearchOutcomes :
                LET date == DigestDate(req[i].r.body.v, now)
                IN  \/ \E st \in getDailyStats(db, String(date)),
                          hs \in getHighUrgencySample(db, SampleLimit) :
                          req' = [req EXCEPT ![i].pc = "done",
                                     ![i].ops = Append(@, Searched(out)),
                                     ![i].resp = DigestResponse(date, queryAiSearch(out), st,
                                                    getFeedbackCount(db, String(date)), hs)]
                    \/ req' = [req EXCEPT ![i].pc = "done",
                                  ![i].ops = Append(@, Searched(out)),
                                  ![i].resp = FetchSettle("D1Error")]
    /\ UNCHANGED <<val, r2, db, task>>

HealthResponse ==
    Response(200,
        JObj([status |-> JStr("ok"), service |-> JStr("feedback-analyzer"),
              endpoints |-> JArr(<<JStr("/interactions"), JStr("/ingest"),
                                   JStr("/ask"), JStr("/digest")>>)]))

\* GET /
HandleHealth(i) ==
    /\ req[i].pc = "recv"
    /\ Route(req[i].r) = "health"
    /\ req' = [req EXCEPT ![i].pc = "done", ![i].resp = HealthResponse]
    /\ UNCHANGED <<val, r2, db, task>>

\* Every other method and path.
HandleNotFound(i) ==
    /\ req[i].pc = "recv"
    /\ Route(req[i].r) = "notFound"
    /\ req' = [req EXCEPT ![i].pc = "done",
                  ![i].resp = Response(404, JObj([error |-> JStr("Not found")]))]
    /\ UNCHANGED <<val, r2, db, task>>

Methods == {"GET", "POST", "PUT", "HEAD"}

Paths ==
    {"/", "/interactions", "/ingest", "/ask", "/digest", "/unknown", "/ingest/",
     "/Ask", ""}

RouteBodies ==
    {Ok(JObj(<<>>)),
     Ok(JObj([date |-> JStr("2026-01-09"), query |-> JStr("slow d1"),
              content |-> JStr("D1 queries are slow"), type |-> JNum(PING)]))}

RouteRequests ==
    {[method |-> m, path |-> p, body |-> b] :
        m \in Methods, p \in Paths, b \in RouteBodies}

RouteReqs == {1}

InitialBucket == Stored(Stored(EmptyStore, Fb1), Fb3)

InitialTable == Ingested(Ingested(EmptyStore, Fb1), Fb3)

InitRoute ==
    /\ val = None
    /\ r2 = InitialBucket
    /\ db = InitialTable
    /\ req \in [RouteReqs -> {NewReq(r) : r \in RouteRequests}]
    /\ task = [i \in RouteReqs |-> NoTask]

NextRoute ==
    \E i \in RouteReqs :
        \/ HandleInteraction(i)
        \/ HandleIngestBody(i)
        \/ HandleIngestNormalize(i)
        \/ HandleIngestStore(i)
        \/ HandleIngestUpsert(i)
        \/ HandleAsk(i)
        \/ HandleDigest(i)
        \/ HandleHealth(i)
        \/ HandleNotFound(i)

SpecRoute == InitRoute /\ [][NextRoute]_vars

\* The five pairs of method and path the claim lists.
Listed(r) ==
    \/ r.method = "POST" /\ r.path \in {"/interactions", "/ingest", "/ask", "/digest"}
    \/ r.method = "GET" /\ r.path = "/"

Untouched == r2 = InitialBucket /\ db = InitialTable

\* C24: GET / is answered 200 with status ok and the four endpoint names,
\* every pair of method and path outside the five listed ones is answered
\* 404, and neither writes to a store, calls a service or registers a task;
\* only the four POST routes reach a handler.
C24_RoutingClosed ==
    \A i \in DOMAIN req :
        /\ (req[i].r.method = "GET" /\ req[i].r.path = "/") =>
              /\ Untouched /\ req[i].ops = <<>> /\ task[i] = NoTask
              /\ req[i].pc \in {"recv", "done"}
              /\ req[i].pc = "done" =>
                    /\ req[i].resp.kind = "response" /\ req[i].resp.status = 200
                    /\ Get(req[i].resp.body, "status") = JStr("ok")
                    /\ Get(req[i].resp.body, "endpoints") =
                          JArr(<<JStr("/interactions"), JStr("/ingest"),
                                 JStr("/ask"), JStr("/digest")>>)
        /\ ~Listed(req[i].r) =>
              /\ Untouched /\ req[i].ops = <<>> /\ task[i] = NoTask
              /\ req[i].pc \in {"recv", "done"}
              /\ req[i].pc = "done" =>
                    req[i].resp.kind = "response" /\ req[i].resp.status = 404

\* C24 witness: a GET of /ingest has been answered 404.
C24_Witness ==
    \E i \in DOMAIN req :
        /\ req[i].r.method = "GET" /\ req[i].r.path = "/ingest"
        /\ req[i].pc = "done"
        /\ req[i].resp.kind = "response"

(***************************************************************************)
(* The relational figures of a digest.                                     *)
(***************************************************************************)
RowsOnDay(table, date) == {r \in Rows(table) : OnDay(r, date)}

\* The lists of at most SampleLimit excerpts taken from rows of the day
\* whose urgency is high or p1.
DaySamples(table, date) ==
    LET high == {[body_text |-> r.body_text, source_url |-> r.source_url] :
                    r \in {x \in RowsOnDay(table, date) :
                              x.urgency.s \in {"high", "p1"}}}
    IN  UNION {{q \in [1 .. n -> high] : \A a, b \in DOMAIN q : a # b => q[a] # q[b]} :
                  n \in 0 .. Min(SampleLimit, Cardinality(high))}

\* C25: in a digest for day D the total is the number of rows created on D,
\* and the report lists at most 3 excerpts, each the first 100 characters of
\* the body of a row of D with urgency high or p1.
C25_DayFigures ==
    \A i \in DOMAIN req :
        (IsDigestTask(i) /\ IsDay(task[i].arg)) =>
            /\ task[i].pc = "sample" =>
                  task[i].total = Cardinality(RowsOnDay(db, task[i].arg))
            /\ task[i].pc = "edit" =>
                  \E hs \in DaySamples(db, task[i].arg) :
                      ComposeDigest(task[i].arg, task[i].search, task[i].stats,
                                    Cardinality(RowsOnDay(db, task[i].arg)), hs)
                          = Ok(task[i].content)

(***************************************************************************)
(* Properties that relate the two stores.                                  *)
(***************************************************************************)
\* The record an object of the bucket holds: JSON.parse of its body.
ObjectRecord(object) == JSONparse(object.body.tok).v

\* C26: every row's r2_key names an object present in the bucket, that
\* object is a record with the row's id, and a successful /ingest response
\* reports the key its row was written with.
C26_RowsNameObjects ==
    /\ \A k \in DOMAIN db :
          /\ db[k].r2_key.s \in DOMAIN r2
          /\ Get(ObjectRecord(r2[db[k].r2_key.s]), "id") = db[k].id
    /\ \A i \in DOMAIN req :
          (req[i].pc = "done" /\ IsSuccess(req[i].resp)) =>
              /\ Get(req[i].resp.body, "r2_key") = req[i].r2Key
              /\ req[i].r2Key = JStr(getFeedbackR2Key(req[i].feedback))

\* The part of C26 that holds: the object a row names is present, and the
\* response reports the key written to the row.
RowsNamePresentObjects ==
    /\ \A k \in DOMAIN db : db[k].r2_key.s \in DOMAIN r2
    /\ \A i \in DOMAIN req :
          (req[i].pc = "done" /\ IsSuccess(req[i].resp)) =>
              /\ Get(req[i].resp.body, "r2_key") = req[i].r2Key
              /\ req[i].r2Key = JStr(getFeedbackR2Key(req[i].feedback))


Completed(i) == req[i].pc = "done" /\ req[i].ops = <<PutOk, UpsertOk>>

\* All requests have settled and i and j are the only ones that wrote.
OnlyWriters(i, j) ==
    /\ i # j /\ Completed(i) /\ Completed(j)
    /\ \A k \in DOMAIN req \ {i, j} : req[k].pc = "done" /\ req[k].ops = <<>>

ContentFields == {"body_text", "sentiment", "urgency", "product_area", "tags"}

\* The row and the object hold the same record content.
Agree(row, object) ==
    \A f \in ContentFields : rowToFeedback(row)[f] = Get(ObjectRecord(object), f)

\* C27: when two ingestions of records with the same id and the same key have
\* both finished successfully, the row of that id and the object under the
\* row's r2_key hold the same body_text, sentiment, urgency, product_area and
\* tags, whatever the order of the four writes was.
C27_StoresAgree ==
    \A i, j \in DOMAIN req :
        (/\ OnlyWriters(i, j)
         /\ req[i].feedback.id = req[j].feedback.id
         /\ req[i].r2Key = req[j].r2Key) =>
            LET row == db[req[i].feedback.id.s]
            IN  Agree(row, r2[row.r2_key.s])


\* The stores after running the ingestions of records a and b one after the
\* other on empty stores.
BucketAfter(a, b) == storeFeedbackInR2(storeFeedbackInR2(EmptyStore, a), b)

TableAfter(a, b) ==
    upsertFeedback(upsertFeedback(EmptyStore, a, getFeedbackR2Key(a)),
                   b, getFeedbackR2Key(b))

Holds(feedback) ==
    /\ feedback.id.s \in DOMAIN db
    /\ db[feedback.id.s] = feedbackToRow(feedback, getFeedbackR2Key(feedback))
    /\ getFeedbackR2Key(feedback) \in DOMAIN r2
    /\ r2[getFeedbackR2Key(feedback)] = R2Object(feedback)

Independent(a, b) ==
    /\ Holds(a) /\ Holds(b)
    /\ r2 = BucketAfter(a, b) /\ r2 = BucketAfter(b, a)
    /\ db = TableAfter(a, b) /\ db = TableAfter(b, a)

\* C28: when two ingestions of records with distinct ids have both finished
\* successfully, both stores hold both records and both stores are what the
\* two ingestions leave when run one after the other, in either order.
C28_DistinctIdsIndependent ==
    \A i, j \in DOMAIN req :
        (OnlyWriters(i, j) /\ req[i].feedback.id # req[j].feedback.id) =>
            Independent(req[i].feedback, req[j].feedback)

\* The same for records whose keys differ as well.
DistinctKeysIndependent ==
    \A i, j \in DOMAIN req :
        (/\ OnlyWriters(i, j)
         /\ req[i].feedback.id # req[j].feedback.id
         /\ req[i].r2Key # req[j].r2Key) =>
            Independent(req[i].feedback, req[j].feedback)

(***************************************************************************)
(* A digest command running beside an ingestion, on tables that hold rows  *)
(* of the digest's day and of the day after.                               *)
(***************************************************************************)
Fb4 ==
    [Fb3 EXCEPT !.id = JStr("fb-4"), !.created_at = JStr("2026-01-10T06:00:00.000Z"),
                !.sentiment = JStr("neutral")]

DigestCommands ==
    {[method |-> "POST", path |-> "/interactions",
      body |-> Ok(Interaction(1, APPLICATION_COMMAND,
                    MkObj([id |-> JStr("cmd-id"), name |-> JStr("digest"),
                           options |-> o])))] :
        o \in {JUndef, JArr(<<Opt("date", JStr("2026-01-09"))>>),
               JArr(<<Opt("date", JStr("2026-01-08"))>>)}}

InitDigest ==
    /\ val = None
    /\ \E later \in BOOLEAN :
         /\ r2 = IF later THEN Stored(InitialBucket, Fb4) ELSE InitialBucket
         /\ db = IF later THEN Ingested(InitialTable, Fb4) ELSE InitialTable
    /\ \E d \in DigestCommands, g \in IngestRequests :
         req = <<NewReq(d), NewReq(g)>>
    /\ task = <<NoTask, NoTask>>

NextDigest ==
    \E i \in {1, 2} :
        \/ HandleInteraction(i)
        \/ TaskSearch(i)
        \/ TaskStats(i)
        \/ TaskCount(i)
        \/ TaskSample(i)
        \/ TaskEdit(i)
        \/ TaskEditError(i)
        \/ HandleIngestBody(i)
        \/ HandleIngestNormalize(i)
        \/ HandleIngestStore(i)
        \/ HandleIngestUpsert(i)

SpecDigest == InitDigest /\ [][NextDigest]_vars

\* The sum of the three counts of every line of the breakdown table.
RECURSIVE TableSum(_, _, _)
TableSum(stats, order, k) ==
    IF k > Len(order) THEN 0
    ELSE Grouped(stats, order[k]).pos + Grouped(stats, order[k]).neu
            + Grouped(stats, order[k]).neg + TableSum(stats, order, k + 1)

\* The report of task i shows the breakdown table.
TableShown(i) ==
    /\ IsDigestTask(i)
    /\ task[i].pc = "edit"
    /\ task[i].total > 0
    /\ Len(task[i].stats) > 0

\* C29: a digest report that shows the breakdown table shows a total equal
\* to the sum of the positive, neutral and negative counts of all its lines.
C29_TotalIsSum ==
    \A i \in DOMAIN req :
        TableShown(i) =>
            task[i].total =
                TableSum(task[i].stats, SourceOrder(task[i].stats, 1, {}), 1)


\* C30: the bucket never holds two objects whose records have the same id.
C30_OneObjectPerId ==
    \A k1, k2 \in DOMAIN r2 :
        Get(ObjectRecord(r2[k1]), "id") = Get(ObjectRecord(r2[k2]), "id") => k1 = k2

====
